---- MODULE Spec2Model ----
(***************************************************************************)
(* Wardrive ingestion service: the Flask handlers of wardrive.py (and the  *)
(* blueprint twin in app/routes/api.py), the JSONL StorageQueue, the       *)
(* AdafruitClient feed wrapper, WardriveService.sync_offline_buffer and    *)
(* the RepeatedTask timer thread that drives it.                           *)
(*                                                                         *)
(* Every access to a queue file and every HTTP call is one atomic step;    *)
(* everything between two such accesses is local to the calling thread.    *)
(***************************************************************************)
EXTENDS Integers, Sequences, FiniteSets, TLC

\* ------------------------------------------------------------------ bounds
\* Number of concurrent POST /api/samples requests (Spec, FairSpec).
MaxIngest == 2
\* Largest backlog the offline buffer starts with in SpecSync.
MaxBuf == 5

Timer == 0
Reqs == 1..MaxIngest
Threads == {Timer} \cup Reqs
RecIds == 1..(IF MaxBuf > MaxIngest THEN MaxBuf ELSE MaxIngest)

\* ------------------------------------------------- values and the validator
\* A JSON value as far as float() cares: a number, a string that parses as a
\* number, any other string, or None / absent.
Num(n) == [t |-> "num", v |-> n]
NumStr(n) == [t |-> "numstr", v |-> n]
BadStr == [t |-> "badstr", v |-> 0]
None == [t |-> "none", v |-> 0]

\* float(x): TypeError on None, ValueError on a non numeric string.
FloatOk(x) == x.t \in {"num", "numstr"}
Float(x) == x.v

HexDigits == {"0", "1", "2", "3", "4", "5", "6", "7", "8", "9",
              "a", "b", "c", "d", "e", "f", "A", "B", "C", "D", "E", "F"}

\* MAC_RE = ^[0-9A-Fa-f]{2}(:[0-9A-Fa-f]{2}){5}$ over a sequence of characters.
MAC_RE(mac) ==
    /\ Len(mac) = 17
    /\ \A i \in 1..17 : IF i % 3 = 0 THEN mac[i] = ":" ELSE mac[i] \in HexDigits

\* str.upper() of one character.
UpperChar(c) ==
    LET lower == <<"a", "b", "c", "d", "e", "f", "g", "h", "i", "j", "k", "l", "m",
                   "n", "o", "p", "q", "r", "s", "t", "u", "v", "w", "x", "y", "z">>
        upper == <<"A", "B", "C", "D", "E", "F", "G", "H", "I", "J", "K", "L", "M",
                   "N", "O", "P", "Q", "R", "S", "T", "U", "V", "W", "X", "Y", "Z">>
    IN  IF \E i \in 1..26 : lower[i] = c
        THEN upper[CHOOSE i \in 1..26 : lower[i] = c]
        ELSE c

\* A str.upper() that leaves the string as it is.
Upper_Identity(s) == s

Upper(s) == [i \in 1..Len(s) |-> UpperChar(s[i])]

RECURSIVE LStrip(_)
LStrip(s) == IF s # <<>> /\ Head(s) = " " THEN LStrip(Tail(s)) ELSE s

RECURSIVE RStrip(_)
RStrip(s) == IF s # <<>> /\ s[Len(s)] = " " THEN RStrip(SubSeq(s, 1, Len(s) - 1)) ELSE s

Strip(s) == RStrip(LStrip(s))

\* A record no request produced (the value of an unset local).
NoRec == [req |-> 0, mac |-> <<>>, latitude |-> 0, longitude |-> 0]

\* normalize_sample + NetworkObservation.from_payload for request r: the gps
\* sub-object wins over the flat coordinates, float() of either coordinate or a
\* MAC that does not match MAC_RE raises ValueError. req tags the record with
\* the request that produced it (received_at in the code).
NormalizeSample(data, r) ==
    LET lat == IF data.gps.present /\ data.gps.latitude.t # "none"
               THEN data.gps.latitude ELSE data.latitude
        lon == IF data.gps.present /\ data.gps.longitude.t # "none"
               THEN data.gps.longitude ELSE data.longitude
        mac == Strip(data.mac)
    IN  IF ~(FloatOk(lat) /\ FloatOk(lon)) THEN [ok |-> FALSE, rec |-> NoRec]
        ELSE IF ~MAC_RE(mac) THEN [ok |-> FALSE, rec |-> NoRec]
        ELSE [ok |-> TRUE,
              rec |-> [req |-> r, mac |-> Upper(mac),
                       latitude |-> Float(lat), longitude |-> Float(lon)]]

\* ------------------------------------------------------------ sample inputs
MacLower == <<"a", "a", ":", "b", "b", ":", "c", "c", ":", "d", "d", ":", "e", "e", ":", "f", "f">>
MacShort == <<"A", "A", ":", "B", "B", ":", "C", "C">>
NoGps == [present |-> FALSE, latitude |-> None, longitude |-> None]

Payloads ==
    { [mac |-> MacLower, latitude |-> Num(19), longitude |-> NumStr(-99), gps |-> NoGps],
      [mac |-> MacLower, latitude |-> None, longitude |-> None,
       gps |-> [present |-> TRUE, latitude |-> Num(19), longitude |-> Num(-99)]],
      [mac |-> MacShort, latitude |-> Num(19), longitude |-> Num(-99), gps |-> NoGps],
      [mac |-> MacLower, latitude |-> None, longitude |-> Num(-99), gps |-> NoGps],
      [mac |-> MacLower, latitude |-> Num(19), longitude |-> BadStr, gps |-> NoGps] }

NoData == [mac |-> <<>>, latitude |-> None, longitude |-> None, gps |-> NoGps]

\* The record a well-formed request i leaves in the queues.
Rec(i) == [req |-> i, mac |-> Upper(MacLower), latitude |-> 19, longitude |-> -99]

\* ------------------------------------------------------------- StorageQueue
\* One line of a JSONL file: json.dumps(payload) + "\n".
Dumps(rec) == [text |-> "json", obj |-> rec]

\* append(payload) writing with open('w') instead of open('a').
QAppend_Overwrite(file, rec) == <<Dumps(rec)>>

\* append: open('a') and write one line.
QAppend(file, rec) == Append(file, Dumps(rec))

\* read_all giving up at the first line that does not parse.
RECURSIVE ReadAll_StopAtBad(_)
ReadAll_StopAtBad(file) ==
    IF file = <<>> THEN <<>>
    ELSE IF Head(file).text = "json"
    THEN <<Head(file).obj>> \o ReadAll_StopAtBad(Tail(file))
    ELSE <<>>

\* read_all: the parsed object of every line that parses, in file order.
RECURSIVE ReadAll(_)
ReadAll(file) ==
    IF file = <<>> THEN <<>>
    ELSE IF Head(file).text = "json" THEN <<Head(file).obj>> \o ReadAll(Tail(file))
    ELSE ReadAll(Tail(file))

\* clear: write_text('').
QClear(file) == <<>>

\* A line json.loads rejects (read_all skips it).
Junk == [text |-> "junk", obj |-> NoRec]

\* A line that is empty once stripped (read_all skips it).
Blank == [text |-> "", obj |-> NoRec]

\* write_all opening the file without truncating it.
QTruncate_Keep(file) == file

\* write_all, open('w'): the file is truncated and the handle stands at offset 0.
QTruncate(file) == <<>>

\* write_all, one flush of the handle's buffer. The handle was not opened for
\* append: the chunk lands at the handle's own offset (pos lines into the file)
\* over whatever is there, and after a hole when the file is shorter than that.
QWriteAt(file, pos, chunk) ==
    LET end == pos + Len(chunk)
        n == IF Len(file) > end THEN Len(file) ELSE end
    IN  [i \in 1..n |-> IF i > pos /\ i <= end THEN chunk[i - pos]
                         ELSE IF i <= Len(file) THEN file[i]
                         ELSE Junk]

\* ----------------------------------------------------------------- state
VARIABLES
    creds,        \* AdafruitClient.username / key / feed_key
    feedUp,       \* the feed is up for good: no POST fails any more
    storage,      \* lines of STORAGE_PATH
    offline,      \* lines of OFFLINE_BUFFER_PATH
    published,    \* per record id, the number of POSTs the feed accepted
    stopEvent,    \* RepeatedTask._stop_event
    pc,           \* per thread, where it is
    data,         \* per request, the JSON body it was rejected for
    normalized,   \* per request, normalize_sample's result
    publishedFlag,\* per request, the local `published`
    response,     \* per request, the HTTP response
    pending,      \* per thread, sync_offline_buffer's `pending`
    failed,       \* per thread, publish_batch's `failed`
    idx,          \* per thread, publish_batch's loop position
    ext,          \* per thread, what extend() has still to append
    result,       \* per thread, sync_offline_buffer's return value
    hist,         \* per request, what the handler did so far (history)
    tried,        \* per thread, the publishes of the running sync (history)
    backlog0,     \* the offline buffer's records at Init (history)
    arg,          \* the argument of the function being called
    ret,          \* what the calls made so far returned
    task,         \* a RepeatedTask: its event, its thread, its target
    remote,       \* the data points the remote feed holds
    fpc,          \* per query handler, where it is
    records,      \* per query handler, fetch_networks' `records`
    source,       \* per query handler, fetch_networks' `source`
    wbuf,         \* per query handler, write_all's handle: offset and unwritten lines
    gets,         \* the number of GETs sent to the feed (history)
    note,         \* per query handler, facts about its running call (history)
    qop,          \* the queue operation a writer thread runs, or ran last
    qseen,        \* what a reader thread's last read_all returned, and when
    qlog          \* the records appended since the file was last replaced (history)

vars == <<creds, feedUp, storage, offline, published, stopEvent, pc, data,
          normalized, publishedFlag, response, pending, failed, idx, ext,
          result, hist, tried, backlog0, remote, fpc, records, source, wbuf,
          gets, note, qop, qseen, qlog, arg, ret, task>>

callVars == <<arg, ret, task>>

queueVars == <<qop, qseen, qlog>>

fetchVars == <<remote, fpc, records, source, wbuf, gets, note>>

feedVars == <<creds, feedUp, published>>
fileVars == <<storage, offline>>
reqVars == <<data, normalized, publishedFlag, response, hist>>
syncVars == <<pending, failed, idx, ext, result, tried>>

\* AdafruitClient.publish: requests.post + raise_for_status either returns
\* (TRUE) or raises a RequestException (FALSE).
PublishOutcomes == IF feedUp THEN {TRUE} ELSE BOOLEAN

\* is_configured looking at the account only, not at the feed name.
IsConfigured_NoFeedKey == creds.username # "" /\ creds.key # ""

\* AdafruitClient.is_configured
IsConfigured == creds.username # "" /\ creds.key # "" /\ creds.feed_key # ""

CredSet == [username : {"", "user"}, key : {"", "key"}, feed_key : {"", "wardrive"}]

NoResponse == [status |-> 0, published |-> FALSE]

\* The threads that serve GET /api/networks.
Fetchers == {"q1", "q2"}

\* What is remembered of a query handler's running call: which call it is,
\* whether it sent a GET, whether the records it holds came out of the GET's
\* answer, and the two files as they were when it started.
NoNote == [calls |-> 0, got |-> FALSE, fed |-> FALSE, storage0 |-> <<>>, offline0 |-> <<>>]

NoHandle == [pos |-> 0, lines |-> <<>>]

\* No queue operation yet, nothing read yet.
NoOp == [name |-> "none", pc |-> "idle", arg |-> <<>>, rest |-> <<>>, pos |-> 0,
         old |-> <<>>, n |-> 0]

InitServiceLocals ==
    /\ qop = NoOp
    /\ qseen = [done |-> FALSE, recs |-> <<>>, op |-> NoOp]
    /\ qlog = [valid |-> TRUE, base |-> ReadAll(storage), added |-> <<>>]
    /\ fpc = [f \in Fetchers |-> "idle"]
    /\ records = [f \in Fetchers |-> <<>>]
    /\ source = [f \in Fetchers |-> ""]
    /\ wbuf = [f \in Fetchers |-> NoHandle]
    /\ gets = 0
    /\ note = [f \in Fetchers |-> NoNote]
    /\ data = [r \in Reqs |-> NoData]
    /\ normalized = [r \in Reqs |-> NoRec]
    /\ publishedFlag = [r \in Reqs |-> FALSE]
    /\ response = [r \in Reqs |-> NoResponse]
    /\ hist = [r \in Reqs |-> <<>>]
    /\ pending = [t \in Threads |-> <<>>]
    /\ failed = [t \in Threads |-> <<>>]
    /\ idx = [t \in Threads |-> 0]
    /\ ext = [t \in Threads |-> <<>>]
    /\ result = [t \in Threads |-> 0]
    /\ tried = [t \in Threads |-> <<>>]

\* No function called yet; a RepeatedTask constructed and not started.
NoRet == [n |-> 0, val |-> <<>>, prev |-> <<>>]
NoTask == [pc |-> "none", stop |-> FALSE, join |-> "none", calls |-> 0,
           after |-> 0, failed |-> FALSE, raised |-> 0]

InitLocals ==
    /\ InitServiceLocals
    /\ arg = <<>>
    /\ ret = NoRet
    /\ task = NoTask

\* The module-level objects of wardrive.py over empty files, the timer thread
\* started by start_offline_sync.
Init ==
    /\ creds \in CredSet
    /\ feedUp = FALSE
    /\ storage = <<>>
    /\ offline = <<>>
    /\ published = [i \in RecIds |-> 0]
    /\ stopEvent = FALSE
    /\ pc = [t \in Threads |-> IF t = Timer THEN "check" ELSE "idle"]
    /\ backlog0 = <<>>
    /\ remote = <<>>
    /\ InitLocals

\* ------------------------------------------------- POST /api/samples handler
\* return jsonify({"error": str(exc)}), 400
BadRequest == [status |-> 400, published |-> FALSE]

\* return jsonify({"status": "ok", "adafruit_published": published}), 201
Created(flag) == [status |-> 201, published |-> flag]

\* ReceiveSample writing the body to the primary store before validating it.
ReceiveSample_StoreFirst(r) ==
    /\ pc[r] = "idle"
    /\ r = 1 \/ pc[r - 1] # "idle"
    /\ \E d \in Payloads :
         LET n == NormalizeSample(d, r)
         IN  /\ storage' = QAppend(storage, [NoRec EXCEPT !.req = r, !.mac = d.mac])
             /\ IF n.ok
                THEN /\ normalized' = [normalized EXCEPT ![r] = n.rec]
                     /\ pc' = [pc EXCEPT ![r] = "store"]
                     /\ UNCHANGED <<response, data>>
                ELSE /\ response' = [response EXCEPT ![r] = BadRequest]
                     /\ data' = [data EXCEPT ![r] = d]
                     /\ pc' = [pc EXCEPT ![r] = "rejected"]
                     /\ UNCHANGED normalized
    /\ UNCHANGED <<feedVars, offline, stopEvent, publishedFlag, hist, syncVars, backlog0, callVars, queueVars, fetchVars>>

\* The handler up to normalize_sample: a body that fails validation is answered
\* 400 before any queue or feed is touched (as is an empty or missing body, by
\* the `if not data` test before it). Requests are numbered in arrival order.
ReceiveSample(r) ==
    /\ pc[r] = "idle"
    /\ r = 1 \/ pc[r - 1] # "idle"
    /\ \E d \in Payloads :
         LET n == NormalizeSample(d, r)
         IN  IF n.ok
             THEN /\ normalized' = [normalized EXCEPT ![r] = n.rec]
                  /\ pc' = [pc EXCEPT ![r] = "store"]
                  /\ UNCHANGED <<response, data>>
             ELSE /\ response' = [response EXCEPT ![r] = BadRequest]
                  /\ data' = [data EXCEPT ![r] = d]
                  /\ pc' = [pc EXCEPT ![r] = "rejected"]
                  /\ UNCHANGED normalized
    /\ UNCHANGED <<feedVars, fileVars, stopEvent, publishedFlag, hist, syncVars, backlog0, callVars, queueVars, fetchVars>>

\* IngestStore keeping the local copy only when there is no feed to send it to.
IngestStore_FeedFirst(r) ==
    /\ pc[r] = "store"
    /\ IF IsConfigured
       THEN /\ pc' = [pc EXCEPT ![r] = "publish"]
            /\ UNCHANGED <<storage, hist>>
       ELSE /\ storage' = QAppend(storage, normalized[r])
            /\ hist' = [hist EXCEPT ![r] = Append(@, "store")]
            /\ pc' = [pc EXCEPT ![r] = "buffer"]
    /\ UNCHANGED <<feedVars, offline, stopEvent, data, normalized, publishedFlag,
                   response, syncVars, backlog0, callVars,
                   queueVars, fetchVars>>

\* storage_queue.append(normalized); published = False; the is_configured test.
IngestStore(r) ==
    /\ pc[r] = "store"
    /\ storage' = QAppend(storage, normalized[r])
    /\ hist' = [hist EXCEPT ![r] = Append(@, "store")]
    /\ pc' = [pc EXCEPT ![r] = IF IsConfigured THEN "publish" ELSE "buffer"]
    /\ UNCHANGED <<feedVars, offline, stopEvent, data, normalized, publishedFlag,
                   response, syncVars, backlog0, callVars,
                   queueVars, fetchVars>>

\* IngestPublish answering at once when the POST fails, the record not buffered.
IngestPublish_DropOnFail(r) ==
    /\ pc[r] = "publish"
    /\ \E ok \in PublishOutcomes :
         IF ok
         THEN /\ published' = [published EXCEPT ![normalized[r].req] = @ + 1]
              /\ publishedFlag' = [publishedFlag EXCEPT ![r] = TRUE]
              /\ hist' = [hist EXCEPT ![r] = @ \o <<"publish_ok", "sync_call">>]
              /\ pc' = [pc EXCEPT ![r] = "sync_read"]
              /\ UNCHANGED response
         ELSE /\ hist' = [hist EXCEPT ![r] = Append(@, "publish_fail")]
              /\ response' = [response EXCEPT ![r] = Created(FALSE)]
              /\ pc' = [pc EXCEPT ![r] = "done"]
              /\ UNCHANGED <<published, publishedFlag>>
    /\ UNCHANGED <<creds, feedUp, fileVars, stopEvent, data, normalized, syncVars, backlog0, callVars, queueVars, fetchVars>>

\* IngestPublish answering at once when the POST succeeds, with no call of
\* sync_offline_buffer.
IngestPublish_NoSync(r) ==
    /\ pc[r] = "publish"
    /\ \E ok \in PublishOutcomes :
         IF ok
         THEN /\ published' = [published EXCEPT ![normalized[r].req] = @ + 1]
              /\ publishedFlag' = [publishedFlag EXCEPT ![r] = TRUE]
              /\ hist' = [hist EXCEPT ![r] = Append(@, "publish_ok")]
              /\ response' = [response EXCEPT ![r] = Created(TRUE)]
              /\ pc' = [pc EXCEPT ![r] = "done"]
         ELSE /\ hist' = [hist EXCEPT ![r] = Append(@, "publish_fail")]
              /\ pc' = [pc EXCEPT ![r] = "buffer"]
              /\ UNCHANGED <<published, publishedFlag, response>>
    /\ UNCHANGED <<creds, feedUp, fileVars, stopEvent, data, normalized, syncVars, backlog0, callVars, queueVars, fetchVars>>

\* adafruit_client.publish(normalized) inside try / except Exception: on
\* success published = True and the else branch calls sync_offline_buffer.
IngestPublish(r) ==
    /\ pc[r] = "publish"
    /\ \E ok \in PublishOutcomes :
         IF ok
         THEN /\ published' = [published EXCEPT ![normalized[r].req] = @ + 1]
              /\ publishedFlag' = [publishedFlag EXCEPT ![r] = TRUE]
              /\ hist' = [hist EXCEPT ![r] = @ \o <<"publish_ok", "sync_call">>]
              /\ pc' = [pc EXCEPT ![r] = "sync_read"]
         ELSE /\ hist' = [hist EXCEPT ![r] = Append(@, "publish_fail")]
              /\ pc' = [pc EXCEPT ![r] = "buffer"]
              /\ UNCHANGED <<published, publishedFlag>>
    /\ UNCHANGED <<creds, feedUp, fileVars, stopEvent, data, normalized, response,
                   syncVars, backlog0, callVars,
                   queueVars, fetchVars>>

\* if not published: offline_buffer.append(normalized), then the 201 response.
IngestBuffer(r) ==
    /\ pc[r] = "buffer"
    /\ offline' = QAppend(offline, normalized[r])
    /\ hist' = [hist EXCEPT ![r] = Append(@, "buffer")]
    /\ response' = [response EXCEPT ![r] = Created(publishedFlag[r])]
    /\ pc' = [pc EXCEPT ![r] = "done"]
    /\ UNCHANGED <<feedVars, storage, stopEvent, data, normalized, publishedFlag,
                   syncVars, backlog0, callVars,
                   queueVars, fetchVars>>

\* --------------------------------------- WardriveService.sync_offline_buffer
\* Where a thread goes when sync_offline_buffer returns n: the handler answers
\* 201, the timer thread goes to _stop_event.wait(interval).
SyncReturn(t, n) ==
    /\ result' = [result EXCEPT ![t] = n]
    /\ pc' = [pc EXCEPT ![t] = IF t = Timer THEN "wait" ELSE "done"]
    /\ hist' = [r \in Reqs |-> IF r = t THEN Append(hist[r], "sync_return") ELSE hist[r]]
    /\ response' = [r \in Reqs |-> IF r = t THEN Created(publishedFlag[r]) ELSE response[r]]

\* pop_all, first half: data = self.read_all()
SyncReadAll(t) ==
    /\ pc[t] = "sync_read"
    /\ pending' = [pending EXCEPT ![t] = ReadAll(offline)]
    /\ failed' = [failed EXCEPT ![t] = <<>>]
    /\ tried' = [tried EXCEPT ![t] = <<>>]
    /\ pc' = [pc EXCEPT ![t] = "sync_clear"]
    /\ UNCHANGED <<feedVars, fileVars, stopEvent, reqVars, idx, ext, result, backlog0, callVars, queueVars, fetchVars>>

\* SyncClear without the is_configured test: the batch is published regardless.
SyncClear_NoConfigCheck(t) ==
    /\ pc[t] = "sync_clear"
    /\ offline' = QClear(offline)
    /\ IF pending[t] = <<>>
       THEN /\ SyncReturn(t, 0)
            /\ UNCHANGED idx
       ELSE /\ idx' = [idx EXCEPT ![t] = 1]
            /\ pc' = [pc EXCEPT ![t] = "sync_publish"]
            /\ UNCHANGED <<result, hist, response>>
    /\ UNCHANGED <<feedVars, storage, stopEvent, data, normalized, publishedFlag,
                   pending, failed, tried, ext, backlog0, callVars,
                   queueVars, fetchVars>>

\* pop_all, second half: self.clear(); then the two early returns of
\* sync_offline_buffer, which read only locals and is_configured.
SyncClear(t) ==
    /\ pc[t] = "sync_clear"
    /\ offline' = QClear(offline)
    /\ IF pending[t] = <<>>
       THEN /\ SyncReturn(t, 0)
            /\ UNCHANGED <<idx, ext>>
       ELSE IF ~IsConfigured
       THEN /\ ext' = [ext EXCEPT ![t] = pending[t]]
            /\ pc' = [pc EXCEPT ![t] = "sync_extend"]
            /\ UNCHANGED <<idx, result, hist, response>>
       ELSE /\ idx' = [idx EXCEPT ![t] = 1]
            /\ pc' = [pc EXCEPT ![t] = "sync_publish"]
            /\ UNCHANGED <<ext, result, hist, response>>
    /\ UNCHANGED <<feedVars, storage, stopEvent, data, normalized, publishedFlag,
                   pending, failed, tried, backlog0, callVars,
                   queueVars, fetchVars>>

\* SyncPublish putting the whole batch back when any record of it failed.
SyncPublish_RequeueAll(t) ==
    /\ pc[t] = "sync_publish"
    /\ \E ok \in PublishOutcomes :
       LET rec == pending[t][idx[t]]
           nfailed == IF ok THEN failed[t] ELSE Append(failed[t], rec)
           last == idx[t] = Len(pending[t])
       IN  /\ published' = IF ok THEN [published EXCEPT ![rec.req] = @ + 1] ELSE published
           /\ failed' = [failed EXCEPT ![t] = nfailed]
           /\ tried' = [tried EXCEPT ![t] = Append(@, [rec |-> rec, ok |-> ok])]
           /\ idx' = [idx EXCEPT ![t] = @ + 1]
           /\ IF ~last
              THEN UNCHANGED <<pc, ext, result, hist, response>>
              ELSE IF nfailed # <<>>
              THEN /\ ext' = [ext EXCEPT ![t] = pending[t]]
                   /\ pc' = [pc EXCEPT ![t] = "sync_extend"]
                   /\ UNCHANGED <<result, hist, response>>
              ELSE /\ SyncReturn(t, Len(pending[t]) - Len(nfailed))
                   /\ UNCHANGED ext
    /\ UNCHANGED <<creds, feedUp, fileVars, stopEvent, data, normalized, publishedFlag,
                   pending, backlog0, callVars,
                   queueVars, fetchVars>>

\* One iteration of publish_batch: publish(payload), a RequestException puts
\* the payload on `failed`. After the last one: extend(failed) if any, else
\* return len(pending) - len(failed).
SyncPublish(t) ==
    /\ pc[t] = "sync_publish"
    /\ \E ok \in PublishOutcomes :
       LET rec == pending[t][idx[t]]
           nfailed == IF ok THEN failed[t] ELSE Append(failed[t], rec)
           last == idx[t] = Len(pending[t])
       IN  /\ published' = IF ok THEN [published EXCEPT ![rec.req] = @ + 1] ELSE published
           /\ failed' = [failed EXCEPT ![t] = nfailed]
           /\ tried' = [tried EXCEPT ![t] = Append(@, [rec |-> rec, ok |-> ok])]
           /\ idx' = [idx EXCEPT ![t] = @ + 1]
           /\ IF ~last
              THEN UNCHANGED <<pc, ext, result, hist, response>>
              ELSE IF nfailed # <<>>
              THEN /\ ext' = [ext EXCEPT ![t] = nfailed]
                   /\ pc' = [pc EXCEPT ![t] = "sync_extend"]
                   /\ UNCHANGED <<result, hist, response>>
              ELSE /\ SyncReturn(t, Len(pending[t]) - Len(nfailed))
                   /\ UNCHANGED ext
    /\ UNCHANGED <<creds, feedUp, fileVars, stopEvent, data, normalized, publishedFlag,
                   pending, backlog0, callVars,
                   queueVars, fetchVars>>

\* SyncExtend returning without putting the records back in the buffer.
SyncExtend_Skip(t) ==
    /\ pc[t] = "sync_extend"
    /\ ext' = [ext EXCEPT ![t] = <<>>]
    /\ SyncReturn(t, IF IsConfigured THEN Len(pending[t]) - Len(failed[t]) ELSE 0)
    /\ UNCHANGED <<feedVars, fileVars, stopEvent, data, normalized, publishedFlag,
                   pending, failed, idx, tried, backlog0, callVars,
                   queueVars, fetchVars>>

\* One iteration of offline_buffer.extend(...): one append. After the last one
\* sync_offline_buffer returns 0 (not configured) or len(pending) - len(failed).
SyncExtend(t) ==
    /\ pc[t] = "sync_extend"
    /\ offline' = QAppend(offline, Head(ext[t]))
    /\ ext' = [ext EXCEPT ![t] = Tail(@)]
    /\ IF Tail(ext[t]) = <<>>
       THEN SyncReturn(t, IF IsConfigured THEN Len(pending[t]) - Len(failed[t]) ELSE 0)
       ELSE UNCHANGED <<pc, result, hist, response>>
    /\ UNCHANGED <<feedVars, storage, stopEvent, data, normalized, publishedFlag,
                   pending, failed, idx, tried, backlog0, callVars,
                   queueVars, fetchVars>>

\* ------------------------------------------------------------- RepeatedTask
\* while not self._stop_event.is_set(): self.target()
TimerCheck ==
    /\ pc[Timer] = "check"
    /\ pc' = [pc EXCEPT ![Timer] = IF stopEvent THEN "stopped" ELSE "sync_read"]
    /\ UNCHANGED <<feedVars, fileVars, stopEvent, reqVars, syncVars, backlog0, callVars, queueVars, fetchVars>>

\* self._stop_event.wait(self.interval): returns at the timeout or at set().
\* target()'s return value and frame are gone by now.
TimerWait ==
    /\ pc[Timer] = "wait"
    /\ pc' = [pc EXCEPT ![Timer] = "check"]
    /\ pending' = [pending EXCEPT ![Timer] = <<>>]
    /\ failed' = [failed EXCEPT ![Timer] = <<>>]
    /\ idx' = [idx EXCEPT ![Timer] = 0]
    /\ ext' = [ext EXCEPT ![Timer] = <<>>]
    /\ result' = [result EXCEPT ![Timer] = 0]
    /\ tried' = [tried EXCEPT ![Timer] = <<>>]
    /\ UNCHANGED <<feedVars, fileVars, stopEvent, reqVars, backlog0, callVars, queueVars, fetchVars>>

\* stop(): self._stop_event.set()
StopTask ==
    /\ ~stopEvent
    /\ stopEvent' = TRUE
    /\ UNCHANGED <<feedVars, fileVars, pc, reqVars, syncVars, backlog0, callVars, queueVars, fetchVars>>

\* ---------------------------------------------------------------- environment
\* The feed comes back for good.
FeedRecover ==
    /\ ~feedUp
    /\ feedUp' = TRUE
    /\ UNCHANGED <<creds, published, fileVars, stopEvent, pc, reqVars, syncVars, backlog0, callVars, queueVars, fetchVars>>

\* The process is killed (or dies of an exception nothing catches): every
\* thread stops where it is, the files keep what was written.
Interrupt ==
    /\ \E t \in Threads : pc[t] \notin {"dead", "idle"}
    /\ pc' = [t \in Threads |-> "dead"]
    /\ UNCHANGED <<feedVars, fileVars, stopEvent, reqVars, syncVars, backlog0, callVars, queueVars, fetchVars>>

\* ------------------------------------------------------------ specifications
Ingest(r) ==
    \/ ReceiveSample(r)
    \/ IngestStore(r)
    \/ IngestPublish(r)
    \/ IngestBuffer(r)

Sync(t) ==
    \/ SyncReadAll(t)
    \/ SyncClear(t)
    \/ SyncPublish(t)
    \/ SyncExtend(t)

\* Concurrent handlers and the timer thread over a feed that may fail any
\* POST, and a kill of the process.
Next ==
    \/ \E r \in Reqs : Ingest(r)
    \/ \E t \in Threads : Sync(t)
    \/ TimerCheck
    \/ TimerWait
    \/ StopTask
    \/ Interrupt

Spec == Init /\ [][Next]_vars

\* One call of sync_offline_buffer on its own, over a backlog of n records that
\* n unpublished requests left in both files.
Lines(recs) == [i \in 1..Len(recs) |-> Dumps(recs[i])]

InitSync ==
    /\ creds \in CredSet
    /\ feedUp = FALSE
    /\ \E n \in 0..MaxBuf : backlog0 = [i \in 1..n |-> Rec(i)]
    /\ storage = Lines(backlog0)
    /\ offline = Lines(backlog0)
    /\ published = [i \in RecIds |-> 0]
    /\ stopEvent = FALSE
    /\ pc = [t \in Threads |-> IF t = Timer THEN "sync_read" ELSE "idle"]
    /\ remote = <<>>
    /\ InitLocals

NextSync == Sync(Timer)

SpecSync == InitSync /\ [][NextSync]_vars

\* The feed configured, every thread scheduled again and again, the timer never
\* stopped, and a feed that at some point comes back for good.
FairInit == Init /\ IsConfigured

FairNext ==
    \/ \E r \in Reqs : Ingest(r)
    \/ \E t \in Threads : Sync(t)
    \/ TimerCheck
    \/ TimerWait
    \/ FeedRecover

ThreadStep(t) ==
    \/ t \in Reqs /\ Ingest(t)
    \/ Sync(t)
    \/ t = Timer /\ (TimerCheck \/ TimerWait)

FairSpec ==
    /\ FairInit
    /\ [][FairNext]_vars
    /\ \A t \in Threads : WF_vars(ThreadStep(t))
    /\ WF_vars(FeedRecover)

\* ------------------------------------------------------------ the remote feed
\* Largest number of data points the feed holds.
MaxRemote == 2
\* Largest number of records an earlier run of the service left in its files.
MaxOld == 2
\* Number of GET /api/networks calls one query handler thread serves.
MaxCalls == 2

\* A JSON object, and the empty one ({} is falsy in Python).
JObj(p) == [t |-> "dict", v |-> p]
EmptyObj == [t |-> "emptydict", v |-> 0]

\* bool(j) of a decoded JSON value.
Truthy(j) ==
    \/ j.t \in {"dict", "numstr", "badstr"}
    \/ j.t = "num" /\ j.v # 0

\* The `value` of a data point: a dict, a str (that json.loads decodes to j, or
\* that it rejects), or anything else.
VDict(p) == [kind |-> "dict", decodes |-> TRUE, j |-> JObj(p)]
VStr(j) == [kind |-> "str", decodes |-> TRUE, j |-> j]
VBadStr == [kind |-> "str", decodes |-> FALSE, j |-> None]
VOther == [kind |-> "other", decodes |-> FALSE, j |-> None]

\* AdafruitClient.extract_payload
ExtractPayload(entry) ==
    LET raw_value == entry.value
    IN  IF raw_value.kind = "dict" THEN raw_value.j
        ELSE IF raw_value.kind = "str"
        THEN IF raw_value.decodes THEN raw_value.j ELSE None
        ELSE None

\* NetworkObservation.from_payload(payload).to_dict(): "raise" is the
\* AttributeError of payload.get on something that is no dict, "skip" the
\* ValueError of a MAC that does not match and the ValueError / TypeError of
\* float().
FromPayload(payload) ==
    IF payload.t # "dict" THEN [out |-> "raise", rec |-> NoRec]
    ELSE LET p == payload.v
             mac == Strip(p.mac)
         IN  IF ~MAC_RE(mac) THEN [out |-> "skip", rec |-> NoRec]
             ELSE IF ~(FloatOk(p.latitude) /\ FloatOk(p.longitude))
             THEN [out |-> "skip", rec |-> NoRec]
             ELSE [out |-> "ok",
                   rec |-> [req |-> p.req, mac |-> Upper(mac),
                            latitude |-> Float(p.latitude),
                            longitude |-> Float(p.longitude)]]

\* WardriveService._normalize_remote_entries: the records of the entries that
\* validate, in feed order; raised when an exception left the loop.
RECURSIVE NormalizeRemoteEntries(_)
NormalizeRemoteEntries(entries) ==
    IF entries = <<>> THEN [raised |-> FALSE, recs |-> <<>>]
    ELSE LET payload == ExtractPayload(Head(entries))
             rest == NormalizeRemoteEntries(Tail(entries))
         IN  IF ~Truthy(payload) THEN rest
             ELSE LET observation == FromPayload(payload)
                  IN  IF observation.out = "raise" THEN [raised |-> TRUE, recs |-> <<>>]
                      ELSE IF observation.out = "skip" THEN rest
                      ELSE [raised |-> rest.raised,
                            recs |-> IF rest.raised THEN <<>>
                                     ELSE <<observation.rec>> \o rest.recs]

\* Data points other devices and earlier runs left on the feed; k tells them
\* apart (record ids below zero are theirs).
RemotePayload(k) == [req |-> -k, mac |-> MacLower, latitude |-> Num(19), longitude |-> NumStr(-99)]

EntrySamples(k) ==
    { [value |-> VDict(RemotePayload(k))],
      [value |-> VStr(JObj(RemotePayload(k)))],
      [value |-> VStr(JObj([RemotePayload(k) EXCEPT !.mac = MacShort]))],
      [value |-> VDict([RemotePayload(k) EXCEPT !.latitude = None])],
      [value |-> VBadStr],
      [value |-> VOther],
      [value |-> VStr(EmptyObj)],
      [value |-> VStr(Num(5))] }

RemoteFeeds ==
    UNION { { feed \in [1..n -> UNION {EntrySamples(k) : k \in 1..MaxRemote}] :
                \A k \in 1..n : feed[k] \in EntrySamples(k) } : n \in 0..MaxRemote }

\* ------------------------------------------- WardriveService.fetch_networks
\* requests.get + raise_for_status + response.json(): the data points (TRUE) or
\* a RequestException (FALSE).
GetOutcomes == IF feedUp THEN {TRUE} ELSE BOOLEAN

\* FetchStart asking a configured feed first and reading the files only when
\* there is none.
FetchStart_PreferRemote(f) ==
    /\ fpc[f] \in {"idle", "done", "error"}
    /\ note[f].calls < MaxCalls
    /\ LET recs == ReadAll(storage)
       IN  /\ records' = [records EXCEPT ![f] = IF IsConfigured THEN <<>> ELSE recs]
           /\ source' = [source EXCEPT ![f] = "storage"]
           /\ fpc' = [fpc EXCEPT ![f] = IF IsConfigured THEN "remote"
                                        ELSE IF recs = <<>> THEN "read_offline"
                                        ELSE "done"]
    /\ wbuf' = [wbuf EXCEPT ![f] = NoHandle]
    /\ note' = [note EXCEPT ![f] = [calls |-> @.calls + 1, got |-> FALSE, fed |-> FALSE,
                                    storage0 |-> storage, offline0 |-> offline]]
    /\ UNCHANGED <<feedVars, fileVars, stopEvent, pc, reqVars, syncVars, backlog0, callVars, queueVars,
                   remote, gets>>

\* FetchStart going on to the offline buffer whatever the primary store holds.
FetchStart_AlwaysOffline(f) ==
    /\ fpc[f] \in {"idle", "done", "error"}
    /\ note[f].calls < MaxCalls
    /\ records' = [records EXCEPT ![f] = ReadAll(storage)]
    /\ source' = [source EXCEPT ![f] = "storage"]
    /\ fpc' = [fpc EXCEPT ![f] = "read_offline"]
    /\ wbuf' = [wbuf EXCEPT ![f] = NoHandle]
    /\ note' = [note EXCEPT ![f] = [calls |-> @.calls + 1, got |-> FALSE, fed |-> FALSE,
                                    storage0 |-> storage, offline0 |-> offline]]
    /\ UNCHANGED <<feedVars, fileVars, stopEvent, pc, reqVars, syncVars, backlog0, callVars, queueVars,
                   remote, gets>>

\* records = self.storage.read_all(); source = 'storage'; `if not records`.
FetchStart(f) ==
    /\ fpc[f] \in {"idle", "done", "error"}
    /\ note[f].calls < MaxCalls
    /\ LET recs == ReadAll(storage)
       IN  /\ records' = [records EXCEPT ![f] = recs]
           /\ source' = [source EXCEPT ![f] = "storage"]
           /\ fpc' = [fpc EXCEPT ![f] = IF recs = <<>> THEN "read_offline" ELSE "done"]
    /\ wbuf' = [wbuf EXCEPT ![f] = NoHandle]
    /\ note' = [note EXCEPT ![f] = [calls |-> @.calls + 1, got |-> FALSE, fed |-> FALSE,
                                    storage0 |-> storage, offline0 |-> offline]]
    /\ UNCHANGED <<feedVars, fileVars, stopEvent, pc, reqVars, syncVars, backlog0, callVars, queueVars,
                   remote, gets>>

\* FetchReadOffline taking the records out of the buffer (pop_all).
FetchReadOffline_PopAll(f) ==
    /\ fpc[f] = "read_offline"
    /\ LET recs == ReadAll(offline)
       IN  /\ records' = [records EXCEPT ![f] = recs]
           /\ source' = [source EXCEPT ![f] = "offline-buffer"]
           /\ fpc' = [fpc EXCEPT ![f] = IF recs = <<>> /\ IsConfigured
                                        THEN "remote" ELSE "done"]
    /\ offline' = QClear(offline)
    /\ UNCHANGED <<feedVars, storage, stopEvent, pc, reqVars, syncVars, backlog0, callVars, queueVars,
                   remote, wbuf, gets, note>>

\* records = self.offline_buffer.read_all(); source = 'offline-buffer'; then
\* `if not records and self.adafruit_client.is_configured`.
FetchReadOffline(f) ==
    /\ fpc[f] = "read_offline"
    /\ LET recs == ReadAll(offline)
       IN  /\ records' = [records EXCEPT ![f] = recs]
           /\ source' = [source EXCEPT ![f] = "offline-buffer"]
           /\ fpc' = [fpc EXCEPT ![f] = IF recs = <<>> /\ IsConfigured
                                        THEN "remote" ELSE "done"]
    /\ UNCHANGED <<feedVars, fileVars, stopEvent, pc, reqVars, syncVars, backlog0, callVars, queueVars,
                   remote, wbuf, gets, note>>

\* FetchRemote returning what the feed gave without caching it.
FetchRemote_NoCache(f) ==
    /\ fpc[f] = "remote"
    /\ gets' = gets + 1
    /\ \E ok \in GetOutcomes :
         LET n == NormalizeRemoteEntries(remote)
         IN  /\ note' = [note EXCEPT ![f].got = TRUE, ![f].fed = ok /\ ~n.raised]
             /\ IF ~ok
                THEN /\ fpc' = [fpc EXCEPT ![f] = "done"]
                     /\ UNCHANGED <<records, source>>
                ELSE IF n.raised
                THEN /\ fpc' = [fpc EXCEPT ![f] = "error"]
                     /\ UNCHANGED <<records, source>>
                ELSE /\ records' = [records EXCEPT ![f] = n.recs]
                     /\ source' = [source EXCEPT ![f] = "adafruit"]
                     /\ fpc' = [fpc EXCEPT ![f] = "done"]
    /\ UNCHANGED <<feedVars, fileVars, stopEvent, pc, reqVars, syncVars, backlog0, callVars, queueVars,
                   remote, wbuf>>

\* FetchRemote setting source = 'adafruit' before the try block, so that the
\* label is there whatever the GET does.
FetchRemote_LabelEarly(f) ==
    /\ fpc[f] = "remote"
    /\ gets' = gets + 1
    /\ source' = [source EXCEPT ![f] = "adafruit"]
    /\ \E ok \in GetOutcomes :
         LET n == NormalizeRemoteEntries(remote)
         IN  /\ note' = [note EXCEPT ![f].got = TRUE, ![f].fed = ok /\ ~n.raised]
             /\ IF ~ok
                THEN /\ fpc' = [fpc EXCEPT ![f] = "done"]
                     /\ UNCHANGED <<records, wbuf>>
                ELSE IF n.raised
                THEN /\ fpc' = [fpc EXCEPT ![f] = "error"]
                     /\ UNCHANGED <<records, wbuf>>
                ELSE IF n.recs = <<>>
                THEN /\ records' = [records EXCEPT ![f] = <<>>]
                     /\ fpc' = [fpc EXCEPT ![f] = "done"]
                     /\ UNCHANGED wbuf
                ELSE /\ records' = [records EXCEPT ![f] = n.recs]
                     /\ wbuf' = [wbuf EXCEPT ![f] = [pos |-> 0, lines |-> Lines(n.recs)]]
                     /\ fpc' = [fpc EXCEPT ![f] = "write_open"]
    /\ UNCHANGED <<feedVars, fileVars, stopEvent, pc, reqVars, syncVars, backlog0, callVars, queueVars,
                   remote>>

\* fetch_feed_data() and _normalize_remote_entries(). A RequestException is
\* logged and the empty offline read is returned; any other exception leaves
\* fetch_networks. No record: source = 'adafruit' and return, else write_all.
FetchRemote(f) ==
    /\ fpc[f] = "remote"
    /\ gets' = gets + 1
    /\ \E ok \in GetOutcomes :
         LET n == NormalizeRemoteEntries(remote)
         IN  /\ note' = [note EXCEPT ![f].got = TRUE, ![f].fed = ok /\ ~n.raised]
             /\ IF ~ok
                THEN /\ fpc' = [fpc EXCEPT ![f] = "done"]
                     /\ UNCHANGED <<records, source, wbuf>>
                ELSE IF n.raised
                THEN /\ fpc' = [fpc EXCEPT ![f] = "error"]
                     /\ UNCHANGED <<records, source, wbuf>>
                ELSE IF n.recs = <<>>
                THEN /\ records' = [records EXCEPT ![f] = <<>>]
                     /\ source' = [source EXCEPT ![f] = "adafruit"]
                     /\ fpc' = [fpc EXCEPT ![f] = "done"]
                     /\ UNCHANGED wbuf
                ELSE /\ records' = [records EXCEPT ![f] = n.recs]
                     /\ wbuf' = [wbuf EXCEPT ![f] = [pos |-> 0, lines |-> Lines(n.recs)]]
                     /\ fpc' = [fpc EXCEPT ![f] = "write_open"]
                     /\ UNCHANGED source
    /\ UNCHANGED <<feedVars, fileVars, stopEvent, pc, reqVars, syncVars, backlog0, callVars, queueVars,
                   remote>>

\* write_all: self.path.open('w').
FetchWriteOpen(f) ==
    /\ fpc[f] = "write_open"
    /\ storage' = QTruncate(storage)
    /\ fpc' = [fpc EXCEPT ![f] = "write"]
    /\ UNCHANGED <<feedVars, offline, stopEvent, pc, reqVars, syncVars, backlog0, callVars, queueVars,
                   remote, records, source, wbuf, gets, note>>

\* write_all: the handle's buffer reaches the file, when it fills up (the first
\* k lines) or when the with block closes the handle (all that is left). After
\* the last line: source = 'adafruit' and return.
FetchWriteFlush(f) ==
    /\ fpc[f] = "write"
    /\ \E k \in 1..Len(wbuf[f].lines) :
         LET rest == SubSeq(wbuf[f].lines, k + 1, Len(wbuf[f].lines))
         IN  /\ storage' = QWriteAt(storage, wbuf[f].pos, SubSeq(wbuf[f].lines, 1, k))
             /\ wbuf' = [wbuf EXCEPT ![f] = [pos |-> @.pos + k, lines |-> rest]]
             /\ IF rest = <<>>
                THEN /\ source' = [source EXCEPT ![f] = "adafruit"]
                     /\ fpc' = [fpc EXCEPT ![f] = "done"]
                ELSE UNCHANGED <<source, fpc>>
    /\ UNCHANGED <<feedVars, offline, stopEvent, pc, reqVars, syncVars, backlog0, callVars, queueVars,
                   remote, records, gets, note>>

Fetch(f) ==
    \/ FetchStart(f)
    \/ FetchReadOffline(f)
    \/ FetchRemote(f)
    \/ FetchWriteOpen(f)
    \/ FetchWriteFlush(f)

\* GET /api/networks: what the handler answers once fetch_networks is over.
ApiNetworks(f) ==
    [status |-> IF fpc[f] = "error" THEN 500 ELSE 200, source |-> source[f]]

\* fetch_networks called again and again by one thread, over the files an
\* earlier run left: m records went to the primary store, the last n of them
\* are still in the offline buffer, and the primary store may have been removed.
InitFetch ==
    /\ creds \in CredSet
    /\ feedUp = FALSE
    /\ \E m \in 0..MaxOld : \E n \in 0..m :
         /\ backlog0 = [i \in 1..n |-> Rec(MaxIngest + m - n + i)]
         /\ storage \in {Lines([i \in 1..m |-> Rec(MaxIngest + i)]), <<>>}
    /\ offline = Lines(backlog0)
    /\ published = [i \in RecIds |-> 0]
    /\ stopEvent = FALSE
    /\ pc = [t \in Threads |-> "idle"]
    /\ remote \in RemoteFeeds
    /\ InitLocals

NextFetch == Fetch("q1")

SpecFetch == InitFetch /\ [][NextFetch]_vars

\* Ingest, sync and query calls one after the other, none overlapping another,
\* The files are empty, or hold the unpublished record of an earlier run.
BusyThread(t) == pc[t] \in {"store", "publish", "buffer", "sync_read", "sync_clear",
                            "sync_publish", "sync_extend"}
BusyFetcher(f) == fpc[f] \in {"read_offline", "remote", "write_open", "write"}

OnlyThread(t) ==
    /\ \A u \in Threads \ {t} : ~BusyThread(u)
    /\ \A f \in Fetchers : ~BusyFetcher(f)

OnlyFetcher(f) ==
    /\ \A u \in Threads : ~BusyThread(u)
    /\ \A g \in Fetchers \ {f} : ~BusyFetcher(g)

\* A feed that holds nothing, one observation, or one data point that makes
\* _normalize_remote_entries raise.
SeqFeeds ==
    { <<>>, <<[value |-> VDict(RemotePayload(1))]>>, <<[value |-> VStr(Num(5))]>> }

InitSeq ==
    /\ creds \in CredSet
    /\ feedUp = FALSE
    /\ \E n \in 0..1 : backlog0 = [i \in 1..n |-> Rec(MaxIngest + i)]
    /\ storage = Lines(backlog0)
    /\ offline = Lines(backlog0)
    /\ published = [i \in RecIds |-> 0]
    /\ stopEvent = FALSE
    /\ pc = [t \in Threads |-> IF t = Timer THEN "check" ELSE "idle"]
    /\ remote \in SeqFeeds
    /\ InitLocals

NextSeq ==
    \/ \E r \in Reqs : OnlyThread(r) /\ (Ingest(r) \/ Sync(r))
    \/ OnlyThread(Timer) /\ (TimerCheck \/ Sync(Timer) \/ TimerWait)
    \/ OnlyFetcher("q1") /\ Fetch("q1")

SpecSeq == InitSeq /\ [][NextSeq]_vars

\* Query handlers and ingest handlers running together over empty files and a
\* configured feed whose data points are objects.
InitRace ==
    /\ creds \in CredSet /\ IsConfigured
    /\ feedUp = FALSE
    /\ storage = <<>>
    /\ offline = <<>>
    /\ published = [i \in RecIds |-> 0]
    /\ stopEvent = FALSE
    /\ pc = [t \in Threads |-> "idle"]
    /\ backlog0 = <<>>
    /\ remote \in {feed \in RemoteFeeds : \A k \in 1..Len(feed) : feed[k].value.kind = "dict"}
    /\ InitLocals

NextRace ==
    \/ \E r \in Reqs : Ingest(r) \/ Sync(r)
    \/ \E f \in Fetchers : Fetch(f)

SpecRace == InitRace /\ [][NextRace]_vars

\* --------------------------------------------------- StorageQueue on its own
\* Longest sequence handed to write_all or extend, and longest starting file.
MaxLen == 2
\* Number of operations the writer thread calls.
MaxOps == 2

RECURSIVE SeqsUpTo(_, _)
SeqsUpTo(S, n) ==
    IF n = 0 THEN {<<>>}
    ELSE LET shorter == SeqsUpTo(S, n - 1)
         IN  shorter \cup {Append(q, x) : q \in {r \in shorter : Len(r) = n - 1}, x \in S}

\* The sequences of well-formed records write_all is called with.
WriteAllArgs == SeqsUpTo({Rec(-1), Rec(-2)}, MaxLen)

\* The files a queue is opened over: records and lines that do not parse.
QueueFiles == SeqsUpTo({Dumps(Rec(-1)), Junk}, MaxLen)

\* The k-th record handed to append gets id k.
NextRecs(n) == [i \in 1..n |-> Rec(Len(qlog.added) + i)]

QueueIdle == qop.pc = "idle" /\ qop.n < MaxOps

\* append(payload)
QueueAppend ==
    /\ QueueIdle
    /\ LET rec == NextRecs(1)[1]
       IN  /\ storage' = QAppend(storage, rec)
           /\ qop' = [NoOp EXCEPT !.name = "append", !.arg = <<rec>>, !.old = storage,
                                  !.n = qop.n + 1]
           /\ qlog' = [qlog EXCEPT !.added = Append(@, rec)]
    /\ UNCHANGED <<feedVars, offline, stopEvent, pc, reqVars, syncVars, backlog0, callVars,
                   fetchVars, qseen>>

\* extend(payloads), up to its loop.
QueueExtend ==
    /\ QueueIdle
    /\ \E n \in 0..MaxLen :
         qop' = [NoOp EXCEPT !.name = "extend", !.arg = NextRecs(n), !.rest = NextRecs(n),
                             !.pc = IF n = 0 THEN "idle" ELSE "extend",
                             !.old = storage, !.n = qop.n + 1]
    /\ UNCHANGED <<feedVars, fileVars, stopEvent, pc, reqVars, syncVars, backlog0, callVars,
                   fetchVars, qseen, qlog>>

\* One iteration of extend's loop: self.append(payload).
QueueExtendStep ==
    /\ qop.pc = "extend"
    /\ storage' = QAppend(storage, Head(qop.rest))
    /\ qlog' = [qlog EXCEPT !.added = Append(@, Head(qop.rest))]
    /\ qop' = [qop EXCEPT !.rest = Tail(@),
                          !.pc = IF Tail(qop.rest) = <<>> THEN "idle" ELSE "extend"]
    /\ UNCHANGED <<feedVars, offline, stopEvent, pc, reqVars, syncVars, backlog0, callVars,
                   fetchVars, qseen>>

\* write_all(payloads): self.path.open('w'). With nothing to write the with
\* block closes the handle at once.
QueueWriteOpen ==
    /\ QueueIdle
    /\ \E R \in WriteAllArgs :
         /\ qop' = [NoOp EXCEPT !.name = "write_all", !.arg = R, !.rest = Lines(R),
                                !.pc = IF R = <<>> THEN "idle" ELSE "write",
                                !.old = storage, !.n = qop.n + 1]
         /\ qlog' = [valid |-> R = <<>>, base |-> <<>>, added |-> <<>>]
    /\ storage' = QTruncate(storage)
    /\ UNCHANGED <<feedVars, offline, stopEvent, pc, reqVars, syncVars, backlog0, callVars,
                   fetchVars, qseen>>

\* write_all: the handle's buffer reaches the file, when it fills up (the first
\* k lines) or when the with block closes the handle (all that is left).
QueueWriteFlush ==
    /\ qop.pc = "write"
    /\ \E k \in 1..Len(qop.rest) :
         LET rest == SubSeq(qop.rest, k + 1, Len(qop.rest))
         IN  /\ storage' = QWriteAt(storage, qop.pos, SubSeq(qop.rest, 1, k))
             /\ qop' = [qop EXCEPT !.rest = rest, !.pos = @ + k,
                                   !.pc = IF rest = <<>> THEN "idle" ELSE "write"]
             /\ qlog' = IF rest = <<>>
                        THEN [valid |-> TRUE, base |-> qop.arg, added |-> <<>>]
                        ELSE qlog
    /\ UNCHANGED <<feedVars, offline, stopEvent, pc, reqVars, syncVars, backlog0, callVars,
                   fetchVars, qseen>>

\* clear()
QueueClear ==
    /\ QueueIdle
    /\ storage' = QClear(storage)
    /\ qop' = [NoOp EXCEPT !.name = "clear", !.old = storage, !.n = qop.n + 1]
    /\ qlog' = [valid |-> TRUE, base |-> <<>>, added |-> <<>>]
    /\ UNCHANGED <<feedVars, offline, stopEvent, pc, reqVars, syncVars, backlog0, callVars,
                   fetchVars, qseen>>

\* The one read_all() of another thread, whatever the writer is doing (or of
\* the next run of the process after the writer was killed).
QueueReadAll ==
    /\ ~qseen.done
    /\ qseen' = [done |-> TRUE, recs |-> ReadAll(storage), op |-> qop]
    /\ UNCHANGED <<feedVars, fileVars, stopEvent, pc, reqVars, syncVars, backlog0, callVars,
                   fetchVars, qop, qlog>>

\* The process is killed: the writer stops where it is, the file keeps what was
\* written.
QueueInterrupt ==
    /\ qop.pc # "dead"
    /\ qop.n > 0
    /\ qop' = [qop EXCEPT !.pc = "dead"]
    /\ UNCHANGED <<feedVars, fileVars, stopEvent, pc, reqVars, syncVars, backlog0, callVars,
                   fetchVars, qseen, qlog>>

\* One StorageQueue over any starting file, a thread that calls its writing
\* operations one after the other and a thread that reads it.
InitQueue ==
    /\ creds = [username |-> "", key |-> "", feed_key |-> "wardrive"]
    /\ feedUp = FALSE
    /\ storage \in QueueFiles
    /\ offline = <<>>
    /\ published = [i \in RecIds |-> 0]
    /\ stopEvent = FALSE
    /\ pc = [t \in Threads |-> "idle"]
    /\ backlog0 = <<>>
    /\ remote = <<>>
    /\ InitLocals

NextQueue ==
    \/ QueueAppend
    \/ QueueExtend
    \/ QueueExtendStep
    \/ QueueWriteOpen
    \/ QueueWriteFlush
    \/ QueueClear
    \/ QueueReadAll
    \/ QueueInterrupt

SpecQueue == InitQueue /\ [][NextQueue]_vars

\* read_all on its own, over any file of records, blank lines and lines that do
\* not parse.
MaxLines == 3

ReadFiles == SeqsUpTo({Dumps(Rec(-1)), Dumps(Rec(-2)), Junk, Blank}, MaxLines)

InitRead ==
    /\ creds = [username |-> "", key |-> "", feed_key |-> "wardrive"]
    /\ feedUp = FALSE
    /\ storage \in ReadFiles
    /\ offline = <<>>
    /\ published = [i \in RecIds |-> 0]
    /\ stopEvent = FALSE
    /\ pc = [t \in Threads |-> "idle"]
    /\ backlog0 = <<>>
    /\ remote = <<>>
    /\ InitLocals

NextRead == QueueReadAll

SpecRead == InitRead /\ [][NextRead]_vars

\* --------------------------------------------------------- dedupe_networks
\* The files, the feed and every thread at rest: the state in which one
\* function is called on its own.
InitService ==
    /\ creds = [username |-> "", key |-> "", feed_key |-> "wardrive"]
    /\ feedUp = FALSE
    /\ storage = <<>>
    /\ offline = <<>>
    /\ published = [i \in RecIds |-> 0]
    /\ stopEvent = FALSE
    /\ pc = [t \in Threads |-> "idle"]
    /\ backlog0 = <<>>
    /\ remote = <<>>
    /\ InitServiceLocals

MaxNets == 3

\* str(chan) of a channel number.
DigitChars == <<"0", "1", "2", "3", "4", "5", "6", "7", "8", "9">>
RECURSIVE IntStr(_)
IntStr(n) == IF n < 10 THEN <<DigitChars[n + 1]>>
             ELSE IntStr(n \div 10) \o <<DigitChars[(n % 10) + 1]>>

\* key = mac or f"{ssid}::{chan}", mac stripped and upper-cased, ssid stripped.
DedupeKey(net) ==
    LET mac == Upper(Strip(net.mac))
        ssid == Strip(net.ssid)
    IN  IF mac # <<>> THEN mac ELSE ssid \o <<":", ":">> \o IntStr(net.channel)

\* by_key is a dict: a sequence of (key, record) in insertion order.
KeyIndex(by_key, key) ==
    IF \E i \in 1..Len(by_key) : by_key[i].key = key
    THEN CHOOSE i \in 1..Len(by_key) : by_key[i].key = key
    ELSE 0

\* One turn of the loop that never replaces the record it holds for a key.
DedupeStep_KeepFirst(by_key, net) ==
    IF KeyIndex(by_key, DedupeKey(net)) = 0
    THEN Append(by_key, [key |-> DedupeKey(net), net |-> net])
    ELSE by_key

\* One turn of the loop. A record is a non-empty dict, so `not prev` holds
\* exactly when the key is new.
DedupeStep(by_key, net) ==
    LET key == DedupeKey(net)
        i == KeyIndex(by_key, key)
    IN  IF i = 0 THEN Append(by_key, [key |-> key, net |-> net])
        ELSE LET prev == by_key[i].net
             IN  IF net.timestamp > prev.timestamp
                 THEN [by_key EXCEPT ![i].net = net]
                 ELSE IF net.timestamp = prev.timestamp /\ net.rssi > prev.rssi
                 THEN [by_key EXCEPT ![i].net = net]
                 ELSE by_key

RECURSIVE DedupeLoop(_, _)
DedupeLoop(by_key, networks) ==
    IF networks = <<>> THEN by_key
    ELSE DedupeLoop(DedupeStep(by_key, Head(networks)), Tail(networks))

\* dedupe_networks returning the values last key first.
DedupeNetworks_Reversed(networks) ==
    LET by_key == DedupeLoop(<<>>, networks)
    IN  [i \in 1..Len(by_key) |-> by_key[Len(by_key) + 1 - i].net]

\* list(by_key.values())
DedupeNetworks(networks) ==
    LET by_key == DedupeLoop(<<>>, networks)
    IN  [i \in 1..Len(by_key) |-> by_key[i].net]

\* Records as the stores hold them (timestamps are instants), and records
\* without a mac, which fall back on ssid::channel.
Net(mac, ssid, channel, timestamp, rssi) ==
    [mac |-> mac, ssid |-> ssid, channel |-> channel, timestamp |-> timestamp,
     rssi |-> rssi]

DedupeSamples ==
    { Net(<<"a", "a">>, <<"x">>, 1, 1, -50),
      Net(<<"A", "A">>, <<"x">>, 1, 2, -60),
      Net(<<"A", "A">>, <<"y">>, 1, 2, -40),
      Net(<<"b", "b">>, <<"x">>, 1, 1, -50),
      Net(<<>>, <<"x">>, 1, 1, -50),
      Net(<<>>, <<"x">>, 1, 1, -40),
      Net(<<>>, <<"x">>, 6, 3, -70),
      Net(<<>>, <<"y">>, 11, 1, -50) }

\* dedupe_networks(arg), then dedupe_networks of what that returned.
DedupeCall ==
    /\ ret.n < 2
    /\ ret' = [n |-> ret.n + 1,
               val |-> DedupeNetworks(IF ret.n = 0 THEN arg ELSE ret.val),
               prev |-> ret.val]
    /\ UNCHANGED <<feedVars, fileVars, stopEvent, pc, reqVars, syncVars, backlog0,
                   queueVars, fetchVars, arg, task>>

InitDedupe ==
    /\ InitService
    /\ arg \in SeqsUpTo(DedupeSamples, MaxNets)
    /\ ret = NoRet
    /\ task = NoTask

NextDedupe == DedupeCall

SpecDedupe == InitDedupe /\ [][NextDedupe]_vars

\* ------------------------------------------------------------- RepeatedTask
\* task.pc is where the task thread stands: "none" (not started), "check" (at
\* the while condition), "call" (past it, the target not yet entered), "target",
\* "wait" (in _stop_event.wait) and "done" (_run returned). task.join is where
\* the caller of stop() stands. History: calls counts the invocations begun,
\* after those begun once the event was set, raised those that raised, and
\* failed tells that the last one raised.
MaxTicks == 3

\* start()
TaskStart ==
    /\ task.pc = "none"
    /\ task' = [task EXCEPT !.pc = "check"]
    /\ UNCHANGED <<feedVars, fileVars, stopEvent, pc, reqVars, syncVars, backlog0,
                   queueVars, fetchVars, arg, ret>>

\* while not self._stop_event.is_set()
TaskCheck ==
    /\ task.pc = "check"
    /\ task.stop \/ task.calls < MaxTicks
    /\ task' = [task EXCEPT !.pc = IF task.stop THEN "done" ELSE "call"]
    /\ UNCHANGED <<feedVars, fileVars, stopEvent, pc, reqVars, syncVars, backlog0,
                   queueVars, fetchVars, arg, ret>>

\* self.target() is entered.
TaskBegin ==
    /\ task.pc = "call"
    /\ task' = [task EXCEPT !.pc = "target", !.calls = @ + 1, !.failed = FALSE,
                            !.after = IF task.stop THEN @ + 1 ELSE @]
    /\ UNCHANGED <<feedVars, fileVars, stopEvent, pc, reqVars, syncVars, backlog0,
                   queueVars, fetchVars, arg, ret>>

\* self.target() returns.
TaskReturn ==
    /\ task.pc = "target"
    /\ task' = [task EXCEPT !.pc = "wait"]
    /\ UNCHANGED <<feedVars, fileVars, stopEvent, pc, reqVars, syncVars, backlog0,
                   queueVars, fetchVars, arg, ret>>

\* An exception of the target that ends the thread.
TaskRaise_Dies ==
    /\ task.pc = "target"
    /\ task' = [task EXCEPT !.pc = "done", !.failed = TRUE, !.raised = @ + 1]
    /\ UNCHANGED <<feedVars, fileVars, stopEvent, pc, reqVars, syncVars, backlog0,
                   queueVars, fetchVars, arg, ret>>

\* self.target() raises an Exception: except Exception logs it.
TaskRaise ==
    /\ task.pc = "target"
    /\ task' = [task EXCEPT !.pc = "wait", !.failed = TRUE, !.raised = @ + 1]
    /\ UNCHANGED <<feedVars, fileVars, stopEvent, pc, reqVars, syncVars, backlog0,
                   queueVars, fetchVars, arg, ret>>

\* self._stop_event.wait(self.interval) returns: the interval is over or the
\* event is set.
TaskWait ==
    /\ task.pc = "wait"
    /\ task' = [task EXCEPT !.pc = "check"]
    /\ UNCHANGED <<feedVars, fileVars, stopEvent, pc, reqVars, syncVars, backlog0,
                   queueVars, fetchVars, arg, ret>>

\* stop(): self._stop_event.set(), then the join begins.
TaskStop ==
    /\ task.pc # "none"
    /\ task.join = "none"
    /\ task' = [task EXCEPT !.stop = TRUE, !.join = "waiting"]
    /\ UNCHANGED <<feedVars, fileVars, stopEvent, pc, reqVars, syncVars, backlog0,
                   queueVars, fetchVars, arg, ret>>

\* A join without a timeout.
TaskJoin_NoTimeout ==
    /\ task.join = "waiting"
    /\ task.pc = "done"
    /\ task' = [task EXCEPT !.join = "returned"]
    /\ UNCHANGED <<feedVars, fileVars, stopEvent, pc, reqVars, syncVars, backlog0,
                   queueVars, fetchVars, arg, ret>>

\* self._thread.join(timeout=2) returns: the thread ended or 2 s went by.
TaskJoin ==
    /\ task.join = "waiting"
    /\ task' = [task EXCEPT !.join = "returned"]
    /\ UNCHANGED <<feedVars, fileVars, stopEvent, pc, reqVars, syncVars, backlog0,
                   queueVars, fetchVars, arg, ret>>

InitTask ==
    /\ InitService
    /\ arg = <<>>
    /\ ret = NoRet
    /\ task = NoTask

NextTask ==
    \/ TaskStart
    \/ TaskCheck
    \/ TaskBegin
    \/ TaskReturn
    \/ TaskRaise
    \/ TaskWait
    \/ TaskStop
    \/ TaskJoin

\* The task thread is scheduled and its timed wait ends; the timed join ends.
\* The target is not assumed to return.
SpecTask ==
    /\ InitTask
    /\ [][NextTask]_vars
    /\ WF_vars(TaskCheck \/ TaskBegin \/ TaskWait)
    /\ WF_vars(TaskJoin)

\* ----------------------------------------- NetworkObservation.from_payload
\* datetime.utcnow() at the time of the call.
Now == 1000

\* _coerce_timestamp: None gives utcnow(); a number goes through
\* utcfromtimestamp, which raises OverflowError (not caught) beyond the range of
\* time_t; an ISO string is parsed; everything else, and every ValueError or
\* TypeError, gives utcnow().
CoerceTimestamp(value) ==
    CASE value.t \in {"missing", "none"} -> [out |-> "ok", at |-> Now]
      [] value.t \in {"num", "iso"} -> [out |-> "ok", at |-> value.v]
      [] value.t = "huge" -> [out |-> "OverflowError", at |-> 0]
      [] OTHER -> [out |-> "ok", at |-> Now]

\* from_payload over all eight fields, a field that is absent having
\* t = "missing". out is "ok", "bad_mac" (the ValueError of the MAC check) or
\* the exception of the first conversion that fails, in the order the code
\* evaluates them.
FromPayloadFields(payload) ==
    LET mac == Strip(payload.mac)
        StrOf(x, default) == CASE x.t = "missing" -> default
                               [] x.t = "str" -> x.v
                               [] OTHER -> <<"N", "o", "n", "e">>
        IntErr(x) == CASE x.t \in {"missing", "num", "numstr"} -> "ok"
                       [] x.t = "none" -> "TypeError"
                       [] OTHER -> "ValueError"
        IntOf(x, default) == IF x.t = "missing" THEN default ELSE x.v
        FloatErr(x) == CASE x.t \in {"num", "numstr"} -> "ok"
                         [] x.t \in {"missing", "none"} -> "TypeError"
                         [] OTHER -> "ValueError"
        security == Upper(StrOf(payload.security, <<"u", "n", "k", "n", "o", "w", "n">>))
        timestamp == CoerceTimestamp(payload.timestamp)
        errs == <<timestamp.out, IntErr(payload.channel), IntErr(payload.rssi),
                  FloatErr(payload.latitude), FloatErr(payload.longitude)>>
    IN  IF ~MAC_RE(mac) THEN [out |-> "bad_mac", rec |-> NoRec]
        ELSE IF \E i \in 1..5 : errs[i] # "ok"
        THEN [out |-> errs[CHOOSE i \in 1..5 :
                               errs[i] # "ok" /\ \A h \in 1..(i - 1) : errs[h] = "ok"],
              rec |-> NoRec]
        ELSE [out |-> "ok",
              rec |-> [ssid |-> StrOf(payload.ssid, <<"u", "n", "k", "n", "o", "w", "n">>),
                       mac |-> Upper(mac),
                       channel |-> IntOf(payload.channel, 1),
                       rssi |-> IntOf(payload.rssi, -100),
                       security |-> security,
                       latitude |-> Float(payload.latitude),
                       longitude |-> Float(payload.longitude),
                       timestamp |-> timestamp.at]]

\* Payloads a device or the feed can hand to the validator.
ValidatePayloads ==
    LET missing == [t |-> "missing", v |-> 0]
        Str(chars) == [t |-> "str", v |-> chars]
    IN  [ssid : {missing, Str(<<"x">>)},
         mac : {MacLower, Upper(MacLower), MacShort, <<" ">> \o MacLower \o <<" ">>,
                [MacLower EXCEPT ![1] = "g"], <<>>},
         channel : {missing, Num(6), NumStr(6), BadStr, None},
         rssi : {missing, Num(-40), BadStr},
         security : {missing, None, Str(<<"o", "p", "e", "n">>), Str(<<"W", "E", "P">>),
                     Str(<<"w", "p", "a", "3">>), Str(<<"f", "o", "o">>)},
         latitude : {Num(19), NumStr(19), None},
         longitude : {Num(-99), BadStr},
         timestamp : {missing, None, Num(100), [t |-> "iso", v |-> 200], BadStr,
                      [t |-> "huge", v |-> 0]}]

\* NetworkObservation.from_payload(arg)
ValidateCall ==
    /\ ret.n = 0
    /\ ret' = [n |-> 1, val |-> FromPayloadFields(arg), prev |-> <<>>]
    /\ UNCHANGED <<feedVars, fileVars, stopEvent, pc, reqVars, syncVars, backlog0,
                   queueVars, fetchVars, arg, task>>

InitValidate ==
    /\ InitService
    /\ arg \in ValidatePayloads
    /\ ret = NoRet
    /\ task = NoTask

NextValidate == ValidateCall

SpecValidate == InitValidate /\ [][NextValidate]_vars

\* --------------------------------------------------------------- clustering
\* Positions are metres along one meridian, where the haversine distance of two
\* points is the difference of their positions.
MaxPts == 4

\* os.getenv defaults of compute_clusters, keyword defaults of
\* cluster_insecure_networks.
DBSCAN_EPS_METERS == 200
DBSCAN_MIN_SAMPLES == 3
eps_meters == 75
min_samples == 3

\* A DBSCAN whose core test leaves the point itself out of its neighbourhood.
DBSCAN_ExcludeSelf(pos, eps, min_pts) ==
    LET ids == 1..Len(pos)
        near == [i \in ids |-> {j \in ids : (IF pos[i] >= pos[j] THEN pos[i] - pos[j]
                                             ELSE pos[j] - pos[i]) <= eps}]
        core == {i \in ids : Cardinality(near[i] \ {i}) >= min_pts}
        RECURSIVE Grow(_)
        Grow(S) == LET T == S \cup {j \in core : \E h \in S : j \in near[h]}
                   IN  IF T = S THEN S ELSE Grow(T)
        Min(S) == CHOOSE m \in S : \A n \in S : m <= n
        grown == [i \in core |-> Min(Grow({i}))]
        root == [i \in ids |-> IF i \in core THEN grown[i]
                               ELSE IF near[i] \cap core = {} THEN 0
                               ELSE Min({grown[c] : c \in near[i] \cap core})]
        roots == {root[i] : i \in ids} \ {0}
    IN  [i \in ids |-> IF root[i] = 0 THEN -1
                       ELSE Cardinality({r \in roots : r < root[i]})]

\* sklearn's DBSCAN.fit_predict over positions pos: a point with at least
\* min_pts points (itself included) within eps is a core point; clusters are
\* grown from the unlabelled core points in index order, through core points,
\* and take every unlabelled neighbour of a core point; labels count the
\* clusters from 0 in that order and -1 is noise.
DBSCAN(pos, eps, min_pts) ==
    LET ids == 1..Len(pos)
        near == [i \in ids |-> {j \in ids : (IF pos[i] >= pos[j] THEN pos[i] - pos[j]
                                             ELSE pos[j] - pos[i]) <= eps}]
        core == {i \in ids : Cardinality(near[i]) >= min_pts}
        RECURSIVE Grow(_)
        Grow(S) == LET T == S \cup {j \in core : \E h \in S : j \in near[h]}
                   IN  IF T = S THEN S ELSE Grow(T)
        Min(S) == CHOOSE m \in S : \A n \in S : m <= n
        grown == [i \in core |-> Min(Grow({i}))]
        root == [i \in ids |-> IF i \in core THEN grown[i]
                               ELSE IF near[i] \cap core = {} THEN 0
                               ELSE Min({grown[c] : c \in near[i] \cap core})]
        roots == {root[i] : i \in ids} \ {0}
    IN  [i \in ids |-> IF root[i] = 0 THEN -1
                       ELSE Cardinality({r \in roots : r < root[i]})]

\* The clusters of the labelled records meta, in the order their labels first
\* appear: the label, len(members), and the members themselves.
ClustersOf(meta, labels) ==
    LET ids == 1..Len(meta)
        first == {i \in ids : labels[i] # -1 /\ \A h \in 1..(i - 1) : labels[h] # labels[i]}
        Nth[k \in 1..Cardinality(first)] ==
            CHOOSE i \in first : Cardinality({h \in first : h < i}) = k - 1
    IN  [k \in 1..Cardinality(first) |->
            LET members == SelectSeq([i \in ids |-> [at |-> i, net |-> meta[i]]],
                                     LAMBDA m : labels[m.at] = labels[Nth[k]])
            IN  [cluster |-> labels[Nth[k]],
                 count |-> Len(members),
                 members |-> [i \in 1..Len(members) |-> members[i].net]]]

\* compute_clusters with scikit-learn installed: the records whose security in
\* capitals is OPEN or WEP and whose latitude and longitude are int or float,
\* which float('nan') is; fit_predict validates its input and raises
\* ValueError on a NaN.
ComputeClusters(networks) ==
    LET Insecure(n) ==
            /\ Upper(IF n.security.t = "str" THEN n.security.v ELSE <<"N", "o", "n", "e">>)
                  \in {<<"O", "P", "E", "N">>, <<"W", "E", "P">>}
            /\ n.latitude.t \in {"num", "nan"}
            /\ n.longitude.t \in {"num", "nan"}
        meta == SelectSeq(networks, Insecure)
        points == [i \in 1..Len(meta) |-> meta[i].latitude.v]
    IN  IF meta = <<>> THEN [out |-> "ok", clusters |-> <<>>]
        ELSE IF \E i \in 1..Len(meta) :
                   meta[i].latitude.t = "nan" \/ meta[i].longitude.t = "nan"
        THEN [out |-> "ValueError", clusters |-> <<>>]
        ELSE [out |-> "ok",
              clusters |-> ClustersOf(meta, DBSCAN(points, DBSCAN_EPS_METERS,
                                                   DBSCAN_MIN_SAMPLES))]

\* cluster_insecure_networks: the rows whose security is a string that in lower
\* case is open or wep, less those dropna finds a None or NaN coordinate in;
\* astype(float) then raises ValueError on a string that is no number.
ClusterInsecureNetworks(rows) ==
    LET Insecure(n) ==
            /\ n.security.t = "str"
            /\ Upper(n.security.v) \in {<<"O", "P", "E", "N">>, <<"W", "E", "P">>}
            /\ n.latitude.t \notin {"none", "nan"}
            /\ n.longitude.t \notin {"none", "nan"}
        insecure == SelectSeq(rows, Insecure)
        coords == [i \in 1..Len(insecure) |-> insecure[i].latitude.v]
    IN  IF insecure = <<>> THEN [out |-> "ok", clusters |-> <<>>]
        ELSE IF \E i \in 1..Len(insecure) :
                   ~(FloatOk(insecure[i].latitude) /\ FloatOk(insecure[i].longitude))
        THEN [out |-> "ValueError", clusters |-> <<>>]
        ELSE [out |-> "ok",
              clusters |-> ClustersOf(insecure, DBSCAN(coords, eps_meters, min_samples))]

\* Records with and without an insecure type and a position.
ClusterSamples ==
    LET Str(chars) == [t |-> "str", v |-> chars]
        At(security, latitude) ==
            [security |-> security, latitude |-> latitude, longitude |-> Num(0)]
    IN  { At(Str(<<"o", "p", "e", "n">>), Num(0)),
          At(Str(<<"W", "E", "P">>), Num(50)),
          At(Str(<<"O", "p", "e", "n">>), Num(100)),
          At(Str(<<"W", "E", "P">>), Num(600)),
          At(Str(<<"W", "P", "A", "3">>), Num(50)),
          At(Str(<<"o", "p", "e", "n">>), None),
          At(Str(<<"o", "p", "e", "n">>), BadStr),
          At(Str(<<"o", "p", "e", "n">>), [t |-> "nan", v |-> 0]),
          At(None, Num(0)) }

\* compute_clusters(arg)
ComputeClustersCall ==
    /\ ret.n = 0
    /\ ret' = [n |-> 1, val |-> ComputeClusters(arg), prev |-> <<>>]
    /\ UNCHANGED <<feedVars, fileVars, stopEvent, pc, reqVars, syncVars, backlog0,
                   queueVars, fetchVars, arg, task>>

\* cluster_insecure_networks(arg)
ClusterInsecureCall ==
    /\ ret.n = 1
    /\ ret' = [n |-> 2, val |-> ClusterInsecureNetworks(arg), prev |-> ret.val]
    /\ UNCHANGED <<feedVars, fileVars, stopEvent, pc, reqVars, syncVars, backlog0,
                   queueVars, fetchVars, arg, task>>

InitCluster ==
    /\ InitService
    /\ arg \in SeqsUpTo(ClusterSamples, MaxPts)
    /\ ret = NoRet
    /\ task = NoTask

NextCluster ==
    \/ ComputeClustersCall
    \/ ClusterInsecureCall

SpecCluster == InitCluster /\ [][NextCluster]_vars

\* ------------------------------------------------------- GET /api/networks
\* Records as fetch_networks returns them: two sightings of one access point
\* and three other access points, one of them secure.
QuerySamples ==
    LET Seen(mac, timestamp, security, latitude) ==
            [mac |-> mac, ssid |-> <<"x">>, channel |-> 1, timestamp |-> timestamp,
             rssi |-> -50, security |-> [t |-> "str", v |-> security],
             latitude |-> Num(latitude), longitude |-> Num(0)]
    IN  { Seen(<<"A", "A">>, 1, <<"O", "P", "E", "N">>, 0),
          Seen(<<"A", "A">>, 2, <<"O", "P", "E", "N">>, 50),
          Seen(<<"B", "B">>, 1, <<"W", "E", "P">>, 50),
          Seen(<<"C", "C">>, 1, <<"O", "P", "E", "N">>, 100),
          Seen(<<"D", "D">>, 1, <<"W", "P", "A", "3">>, 0) }

\* api_networks of wardrive.py, records = arg being what fetch_networks
\* returned: dedupe, cluster the deduplicated list, count its length.
ApiNetworksCall ==
    /\ ret.n = 0
    /\ LET deduped == DedupeNetworks(arg)
       IN  ret' = [n |-> 1,
                   val |-> [count |-> Len(deduped), networks |-> deduped,
                            clusters |-> ComputeClusters(deduped).clusters],
                   prev |-> <<>>]
    /\ UNCHANGED <<feedVars, fileVars, stopEvent, pc, reqVars, syncVars, backlog0,
                   queueVars, fetchVars, arg, task>>

\* get_networks of app/routes/api.py: the records as fetched are clustered,
\* counted and returned.
GetNetworksCall ==
    /\ ret.n = 1
    /\ ret' = [n |-> 2,
               val |-> [count |-> Len(arg), networks |-> arg,
                        clusters |-> ComputeClusters(arg).clusters],
               prev |-> ret.val]
    /\ UNCHANGED <<feedVars, fileVars, stopEvent, pc, reqVars, syncVars, backlog0,
                   queueVars, fetchVars, arg, task>>

InitQuery ==
    /\ InitService
    /\ arg \in SeqsUpTo(QuerySamples, MaxNets)
    /\ ret = NoRet
    /\ task = NoTask

NextQuery ==
    \/ ApiNetworksCall
    \/ GetNetworksCall

SpecQuery == InitQuery /\ [][NextQuery]_vars

\* ------------------------------------------------------------------ properties
Has(h, e) == \E i \in 1..Len(h) : h[i] = e
Count(h, e) == Cardinality({i \in 1..Len(h) : h[i] = e})

\* The number of lines of a file that hold request id's record.
Copies(file, id) == Cardinality({i \in 1..Len(file) : file[i].text = "json" /\ file[i].obj.req = id})

\* No thread is inside a handler or inside sync_offline_buffer.
Quiescent == \A t \in Threads : pc[t] \in {"idle", "done", "rejected", "check", "wait", "stopped"}

\* The request's own publish failed, or there was no feed to publish to.
PublishFailedOrOff(r) ==
    \/ Has(hist[r], "publish_fail")
    \/ ~IsConfigured /\ Has(hist[r], "store")

\* C1: an accepted ingest appends its record to the primary store as the first
\* thing it does, before its publish is attempted, once, whether or not the feed
\* is configured and whatever the publish does: every record that was published,
\* buffered or answered 201 is in the primary store.
C1_StoredBeforePublish ==
    \A r \in Reqs :
        /\ hist[r] # <<>> => hist[r][1] = "store"
        /\ Count(hist[r], "store") <= 1
        /\ Has(hist[r], "store") =>
              /\ Copies(storage, r) = 1
              /\ \E i \in 1..Len(storage) : storage[i] = Dumps(normalized[r])
        /\ pc[r] \in {"publish", "buffer", "sync_read", "sync_clear", "sync_publish",
                      "sync_extend", "done"} => Has(hist[r], "store")
        /\ response[r].status = 201 => Has(hist[r], "store")
        /\ (published[r] > 0 \/ Copies(offline, r) > 0) => Copies(storage, r) = 1

C1_Witness ==
    \E r, q \in Reqs :
        /\ hist[r] = <<"store", "publish_fail", "buffer">>
        /\ Has(hist[q], "publish_ok")
        /\ Len(storage) = 2

\* C2: a request whose publish failed with a transport error, or that found the
\* feed not configured, is answered 201 with published = false, and the step
\* that answers it appends its record to the offline buffer, once; the record is
\* in the primary store.
C2_Answered ==
    \A r \in Reqs : PublishFailedOrOff(r) =>
        /\ response[r].status \in {0, 201}
        /\ Count(hist[r], "buffer") <= 1
        /\ response[r].status = 201 =>
              /\ response[r] = Created(FALSE)
              /\ Count(hist[r], "buffer") = 1
              /\ Copies(storage, r) = 1

C2_Step ==
    \A r \in Reqs :
        (PublishFailedOrOff(r) /\ response[r].status = 0 /\ response'[r].status # 0) =>
            /\ offline' = Append(offline, Dumps(normalized[r]))
            /\ storage' = storage

C2_BufferedOnFailure == [](C2_Answered) /\ [][C2_Step]_vars

C2_Witness ==
    \E r \in Reqs :
        /\ Has(hist[r], "publish_fail")
        /\ response[r] = Created(FALSE)
        /\ Copies(offline, r) = 1

\* C3: a request answered 400 for a validation error wrote nothing: the step
\* that rejects it leaves the primary store, the offline buffer and the feed as
\* they were, and no line of either file and no publish is ever its own.
C3_Rejected ==
    \A r \in Reqs : response[r].status = 400 =>
        /\ hist[r] = <<>>
        /\ normalized[r] = NoRec
        /\ Copies(storage, r) = 0
        /\ Copies(offline, r) = 0
        /\ published[r] = 0

C3_Step ==
    \A r \in Reqs :
        (response[r].status = 0 /\ response'[r].status = 400) =>
            /\ storage' = storage
            /\ offline' = offline
            /\ published' = published

C3_RejectWritesNothing == [](C3_Rejected) /\ [][C3_Step]_vars

C3_Witness ==
    \E r, q \in Reqs :
        /\ response[r].status = 400
        /\ data[r].mac = MacShort
        /\ response[q].status = 400
        /\ ~FloatOk(data[q].longitude)
        /\ r # q

TriedRecs(tr) == [i \in 1..Len(tr) |-> tr[i].rec]

RECURSIVE FailedOf(_)
FailedOf(tr) ==
    IF tr = <<>> THEN <<>>
    ELSE IF Head(tr).ok THEN FailedOf(Tail(tr))
    ELSE <<Head(tr).rec>> \o FailedOf(Tail(tr))

\* C5: with the feed configured, a sync_offline_buffer that ran alone over the
\* backlog P has tried to publish each record of P once, in order, has left in
\* the offline buffer exactly the records whose publish failed, in their order,
\* and has returned |P| minus the number of failures.
C5_SyncKeepsFailedOnly ==
    (IsConfigured /\ pc[Timer] = "wait") =>
        /\ pending[Timer] = backlog0
        /\ TriedRecs(tried[Timer]) = backlog0
        /\ offline = Lines(FailedOf(tried[Timer]))
        /\ result[Timer] = Len(backlog0) - Len(FailedOf(tried[Timer]))
        /\ \A i \in RecIds :
              published[i] = Cardinality({k \in 1..Len(tried[Timer]) :
                                            tried[Timer][k].ok /\ tried[Timer][k].rec.req = i})

C5_Witness ==
    /\ IsConfigured
    /\ pc[Timer] = "wait"
    /\ Len(backlog0) = 5
    /\ Len(FailedOf(tried[Timer])) = 2
    /\ result[Timer] = 3
    /\ Len(offline) = 2

\* C6: with the feed not configured, sync_offline_buffer never publishes, and a
\* call that ran alone returns 0 and leaves the offline buffer holding the
\* backlog it found, in the same order; the primary store never changes.
C6_SyncUnconfigured ==
    ~IsConfigured =>
        /\ tried[Timer] = <<>>
        /\ \A i \in RecIds : published[i] = 0
        /\ storage = Lines(backlog0)
        /\ pc[Timer] = "wait" =>
              /\ result[Timer] = 0
              /\ offline = Lines(backlog0)

C6_Witness ==
    /\ ~IsConfigured
    /\ pc[Timer] = "wait"
    /\ Len(backlog0) >= 2
    /\ offline = Lines(backlog0)

\* C7: every record an ingest put in the offline buffer and that no publish has
\* yet delivered is in the offline buffer, in every reachable state.
C7_BufferedUntilPublished ==
    \A r \in Reqs :
        (Has(hist[r], "buffer") /\ published[r] = 0) => Copies(offline, r) >= 1

\* C8: once no handler and no sync is running, every record an ingest appended
\* to the offline buffer is in the offline buffer or has been published.
C8_NoLostAppend ==
    Quiescent =>
        \A r \in Reqs :
            Has(hist[r], "buffer") => (Copies(offline, r) >= 1 \/ published[r] >= 1)

\* C9: concurrent runs of sync_offline_buffer publish each buffered record
\* successfully at most once.
C9_PublishedAtMostOnce ==
    \A r \in Reqs : Has(hist[r], "buffer") => published[r] <= 1

\* C10: with the feed configured and eventually up for good, and every thread
\* scheduled again and again, every record that is in the offline buffer is
\* eventually published.
C10_EventuallyPublished ==
    \A r \in Reqs : [](Copies(offline, r) >= 1 => <>(published[r] >= 1))

\* ------------------------------------------------ properties of fetch_networks
AnyCredEmpty == creds.username = "" \/ creds.key = "" \/ creds.feed_key = ""

\* C11: while the feed username, key or feed name is empty, no ingest, query
\* or sync ever sends a POST or a GET to the feed.
C11_NoRemoteWhenUnconfigured ==
    AnyCredEmpty =>
        /\ gets = 0
        /\ \A f \in Fetchers : ~note[f].got
        /\ \A i \in RecIds : published[i] = 0
        /\ \A t \in Threads : tried[t] = <<>>
        /\ \A r \in Reqs : ~Has(hist[r], "publish_ok") /\ ~Has(hist[r], "publish_fail")

\* An unconfigured service that answered a query over empty files, stored an
\* ingest and ran a sync over the buffered record.
C11_Witness ==
    /\ AnyCredEmpty
    /\ fpc["q1"] = "done" /\ note["q1"].storage0 = <<>> /\ note["q1"].offline0 = <<>>
    /\ \E r \in Reqs : pc[r] = "done"
    /\ pc[Timer] = "wait" /\ pending[Timer] # <<>>
    /\ offline # <<>>

\* The records a file holds, one per line and every line a record.
RecordsOf(file) == [i \in 1..Len(file) |-> file[i].obj]

\* C12: a call that found the primary store non-empty returns its records in
\* append order, labelled "storage", sends no GET and leaves both files as they
\* were, whatever the offline buffer holds.
C12_PrimaryStoreFirst ==
    \A f \in Fetchers :
        note[f].calls > 0 /\ note[f].storage0 # <<>> =>
            /\ fpc[f] = "done"
            /\ records[f] = RecordsOf(note[f].storage0)
            /\ source[f] = "storage"
            /\ ~note[f].got
            /\ storage = note[f].storage0
            /\ offline = note[f].offline0

\* A configured service over a feed that holds data, a primary store of two
\* records and an offline buffer that holds only one of them.
C12_Witness ==
    /\ fpc["q1"] = "done"
    /\ Len(note["q1"].storage0) = 2
    /\ Len(note["q1"].offline0) = 1
    /\ ~AnyCredEmpty
    /\ remote # <<>>

\* C13: a call that found the primary store empty and the offline buffer
\* non-empty returns the buffer's records, labelled "offline-buffer", sends
\* no GET even to a configured feed and leaves the buffer as it was.
C13_OfflineBufferSecond ==
    \A f \in Fetchers :
        /\ fpc[f] = "done"
        /\ note[f].storage0 = <<>>
        /\ note[f].offline0 # <<>>
        => /\ records[f] = RecordsOf(note[f].offline0)
           /\ source[f] = "offline-buffer"
           /\ ~note[f].got
           /\ offline = note[f].offline0

\* A configured service over a feed that holds data, no primary store and an
\* offline buffer of two records.
C13_Witness ==
    /\ fpc["q1"] = "done"
    /\ note["q1"].storage0 = <<>>
    /\ Len(note["q1"].offline0) = 2
    /\ ~AnyCredEmpty
    /\ remote # <<>>

\* Some record is in the primary store or in the offline buffer.
LocalData == ReadAll(storage) # <<>> \/ ReadAll(offline) # <<>>

\* A call that sent a GET did so over a configured feed and two empty files.
C14_GetOnlyWhenEmpty ==
    \A f \in Fetchers :
        note[f].got =>
            /\ ~AnyCredEmpty
            /\ ReadAll(note[f].storage0) = <<>>
            /\ ReadAll(note[f].offline0) = <<>>

\* Once there is local data no step sends a GET, and local data stays.
C14_Step ==
    LocalData => gets' = gets /\ LocalData'

Label(f) == ApiNetworks(f).source

\* C15 as stated: the label is one of storage, offline-buffer, remote, and it
\* is "remote" exactly when the returned records came from the feed.
C15_LabelRemote ==
    \A f \in Fetchers :
        fpc[f] = "done" =>
            /\ Label(f) \in {"storage", "offline-buffer", "remote"}
            /\ Label(f) = "remote" <=> note[f].fed

\* C15: the label of a finished call is one of storage, offline-buffer,
\* adafruit, and it is "adafruit" exactly when the returned records came from
\* the feed in that call.
C15_LabelAdafruit ==
    \A f \in Fetchers :
        fpc[f] = "done" =>
            /\ Label(f) \in {"storage", "offline-buffer", "adafruit"}
            /\ Label(f) = "adafruit" <=> note[f].fed

\* A call that returned the two records the feed gave it.
C15_Witness ==
    /\ fpc["q1"] = "done"
    /\ note["q1"].fed
    /\ Len(records["q1"]) = 2
    /\ Label("q1") = "adafruit"

\* A finished call that sent a GET left in the primary store exactly the
\* records it returned, each of them a validated one.
C16_Cached ==
    \A f \in Fetchers :
        fpc[f] = "done" /\ note[f].got =>
            /\ ReadAll(storage) = records[f]
            /\ \A i \in 1..Len(records[f]) : MAC_RE(records[f][i].mac)

\* The step that starts the call after one that sent a GET ends it at once:
\* the same records, from the primary store, no GET.
C16_NextCall(f) ==
    /\ fpc'[f] = "done"
    /\ Label(f)' = "storage"
    /\ records'[f] = records[f]
    /\ gets' = gets

C16_StepAny ==
    \A f \in Fetchers :
        fpc[f] = "done" /\ note[f].got /\ note'[f].calls = note[f].calls + 1
            => C16_NextCall(f)

\* C16 as stated: whatever the call that sent the GET returned, the next call
\* returns the same from the primary store without a GET.
C16_AlwaysCached == [](C16_Cached) /\ [][C16_StepAny]_vars

C16_Step ==
    \A f \in Fetchers :
        /\ fpc[f] = "done" /\ note[f].got /\ note'[f].calls = note[f].calls + 1
        /\ records[f] # <<>>
        => C16_NextCall(f)

\* C16: after a call that sent a GET the primary store holds exactly the
\* validated records the call returned; when it returned at least one, the
\* next call returns the same records from the primary store without a GET.
C16_CachedWhenNonEmpty == [](C16_Cached) /\ [][C16_Step]_vars

\* The second call answered from the primary store with the one record that
\* the first call's GET gave out of a feed of two data points.
C16_Witness ==
    /\ note["q1"].calls = 2
    /\ fpc["q1"] = "done"
    /\ Label("q1") = "storage"
    /\ gets = 1
    /\ Len(remote) = 2
    /\ Len(records["q1"]) = 1
    /\ ReadAll(storage) = records["q1"]

\* C17: once an ingest that stored its record has answered and no query is
\* under way, the record is in the primary store, however the ingest and a
\* query's caching write_all interleaved.
C17_IngestSurvivesCaching ==
    \A r \in Reqs :
        /\ pc[r] = "done"
        /\ Has(hist[r], "store")
        /\ \A f \in Fetchers : ~BusyFetcher(f)
        => Copies(storage, r) >= 1

\* ------------------------------------------------- properties of StorageQueue
\* C18: a read_all that ran while a write_all(R) was under way returned either
\* all the records the file held before or all of R.
C18_WriteAllAtomic ==
    qseen.done /\ qseen.op.name = "write_all" /\ qseen.op.pc = "write" =>
        qseen.recs \in {ReadAll(qseen.op.old), qseen.op.arg}

\* C19: a read_all that follows a finished write_all(R) returns R, record for
\* record, whatever the file held before.
C19_WriteReadRoundTrip ==
    qseen.done /\ qseen.op.name = "write_all" /\ qseen.op.pc = "idle" =>
        /\ Len(qseen.recs) = Len(qseen.op.arg)
        /\ \A i \in 1..Len(qseen.recs) : qseen.recs[i] = qseen.op.arg[i]

\* write_all of one record over a file of two lines, then read_all.
C19_Witness ==
    /\ qseen.done
    /\ qseen.op.name = "write_all" /\ qseen.op.pc = "idle"
    /\ Len(qseen.op.old) = 2
    /\ Len(qseen.op.arg) = 1
    /\ qseen.recs = qseen.op.arg

\* C20: as long as the file is not replaced, it holds the records it started
\* with followed by every appended record in arrival order, also when the
\* process was killed right after an append; and each append step adds one
\* line at the end.
C20_Kept ==
    qlog.valid => ReadAll(storage) = qlog.base \o qlog.added

C20_Step ==
    Len(qlog'.added) = Len(qlog.added) + 1 /\ qlog.valid =>
        /\ Len(storage') = Len(storage) + 1
        /\ SubSeq(storage', 1, Len(storage)) = storage
        /\ ReadAll(<<storage'[Len(storage')]>>) = <<qlog'.added[Len(qlog'.added)]>>

C20_AppendKeepsAll == [](C20_Kept) /\ [][C20_Step]_vars

\* Killed in the middle of an extend, after an append and an earlier append: a
\* read_all then finds the starting record and the two appended ones.
C20_Witness ==
    /\ qop.pc = "dead"
    /\ qop.name = "extend" /\ qop.rest # <<>>
    /\ Len(qlog.added) = 2
    /\ qlog.base # <<>>
    /\ qseen.done /\ qseen.op = qop
    /\ qseen.recs = qlog.base \o qlog.added

\* The lines of a file that hold a record, in file order.
IsRecordLine(line) == line.text = "json"
RecordLines(file) == SelectSeq(file, IsRecordLine)

NotBeaten(net, other) ==
    \/ net.timestamp > other.timestamp
    \/ net.timestamp = other.timestamp /\ net.rssi >= other.rssi

\* C22: for every key of the input the result holds exactly one record of that
\* key, a record of the input that no input record of the key beats on
\* (timestamp, rssi); the result holds nothing else.
C22_OneFreshestPerKey ==
    ret.n = 1 =>
        /\ \A j \in 1..Len(arg) :
              \E i \in 1..Len(ret.val) :
                 /\ DedupeKey(ret.val[i]) = DedupeKey(arg[j])
                 /\ NotBeaten(ret.val[i], arg[j])
                 /\ \A h \in 1..Len(ret.val) :
                       DedupeKey(ret.val[h]) = DedupeKey(arg[j]) => h = i
        /\ \A i \in 1..Len(ret.val) : \E j \in 1..Len(arg) : ret.val[i] = arg[j]

\* Three records of one key given oldest last: the freshest, given first, is
\* the one returned.
C22_Witness ==
    /\ ret.n = 1
    /\ Len(arg) = 3
    /\ Len(ret.val) = 1
    /\ ret.val[1] = arg[1]
    /\ arg[2] # arg[1] /\ arg[3] # arg[1] /\ arg[2] # arg[3]

\* C23: dedupe_networks applied to its own result returns that result.
C23_Idempotent == ret.n = 2 => ret.val = ret.prev

\* A second call on a result of two records that the first call reduced.
C23_Witness ==
    /\ ret.n = 2
    /\ Len(arg) = 3
    /\ Len(ret.prev) = 2
    /\ ret.val = ret.prev

\* C24: once an invocation of the target has raised, the thread lives on and,
\* unless stop() is called, the target is entered again (within the horizon
\* MaxTicks of invocations).
C24_FailureDoesNotEndTask ==
    (task.failed /\ task.calls < MaxTicks) ~> (~task.failed \/ task.stop)

\* The target raised, the thread waited and entered the target again.
C24_Witness ==
    /\ task.calls = 2
    /\ task.raised = 1
    /\ task.pc = "target"
    /\ ~task.failed
    /\ ~task.stop

\* C25: once stop() is called at most one more invocation begins; a thread
\* that is not inside the target then ends; and stop() returns whatever the
\* thread is doing.
C25_Cancellable ==
    /\ [](task.after <= 1)
    /\ (task.stop /\ task.pc \in {"wait", "check"}) ~> (task.pc = "done")
    /\ (task.join = "waiting") ~> (task.join = "returned")

\* stop() has returned while the one invocation begun after it still runs.
C25_Witness ==
    /\ task.join = "returned"
    /\ task.pc = "target"
    /\ task.after = 1

\* C26: a fetch that reached the feed never fails on a bad data point: no
\* exception leaves fetch_networks once the GET has been answered.
C26_BadEntryNeverFailsFetch ==
    \A f \in Fetchers : note[f].got => fpc[f] # "error"

\* C27: a payload with a MAC of the canonical shape and numeric coordinates is
\* accepted, an unparseable channel or rssi giving way to its default.
C27_OnlyMacAndCoordinatesFail ==
    (/\ ret.n = 1
     /\ MAC_RE(Strip(arg.mac))
     /\ FloatOk(arg.latitude)
     /\ FloatOk(arg.longitude))
    => /\ ret.val.out = "ok"
       /\ arg.channel.t \notin {"num", "numstr"} => ret.val.rec.channel = 1
       /\ arg.rssi.t \notin {"num", "numstr"} => ret.val.rec.rssi = -100
       /\ arg.timestamp.t \notin {"num", "iso"} => ret.val.rec.timestamp = Now

LowerHex == {"a", "b", "c", "d", "e", "f"}

\* mac is stored as stored: the same characters, the hex letters in capitals.
StoredUpper(mac, stored) ==
    /\ Len(stored) = Len(mac)
    /\ \A i \in 1..Len(mac) :
          IF mac[i] \in LowerHex
          THEN stored[i] \notin LowerHex /\ stored[i] # mac[i]
          ELSE stored[i] = mac[i]

\* C28 as stated: the mac as given is rejected unless it is six 2-digit hex
\* groups separated by colons, and one of that shape passes the MAC check and
\* is stored in capitals.
C28_ExactShape ==
    ret.n = 1 =>
        /\ ~MAC_RE(arg.mac) => ret.val.out = "bad_mac"
        /\ MAC_RE(arg.mac) => ret.val.out # "bad_mac"
        /\ (MAC_RE(arg.mac) /\ ret.val.out = "ok") => StoredUpper(arg.mac, ret.val.rec.mac)

\* C28: the mac with the white space around it stripped is rejected unless it
\* is six 2-digit hex groups separated by colons; one of that shape, in either
\* letter case, passes the MAC check and is stored stripped and in capitals.
C28_ShapeAfterStrip ==
    ret.n = 1 =>
        /\ ~MAC_RE(Strip(arg.mac)) => ret.val.out = "bad_mac"
        /\ MAC_RE(Strip(arg.mac)) => ret.val.out # "bad_mac"
        /\ (MAC_RE(Strip(arg.mac)) /\ ret.val.out = "ok")
              => StoredUpper(Strip(arg.mac), ret.val.rec.mac)

\* A lower-case mac with a blank on either side, accepted and stored in capitals.
C28_Witness ==
    /\ ret.n = 1
    /\ ret.val.out = "ok"
    /\ Len(arg.mac) = 19
    /\ arg.mac[2] = "a"
    /\ ret.val.rec.mac[1] = "A"
    /\ Len(ret.val.rec.mac) = 17

\* The security types the tools of the repository know, and the sentinel.
RecognizedSecurity ==
    { <<"O", "P", "E", "N">>, <<"W", "E", "P">>, <<"W", "P", "A", "3">>,
      <<"W", "P", "A", "-", "P", "S", "K">>, <<"W", "P", "A", "2", "-", "P", "S", "K">> }

\* C29: the security of a validated observation is a recognized type in
\* capitals, or UNKNOWN.
C29_UnrecognizedBecomesUnknown ==
    (ret.n = 1 /\ ret.val.out = "ok")
    => ret.val.rec.security \in RecognizedSecurity \cup {<<"U", "N", "K", "N", "O", "W", "N">>}

\* The filter of the clusterer: an insecure type in any letter case and a
\* numeric latitude and longitude.
PassesFilter(n) ==
    /\ n.security.t = "str"
    /\ Upper(n.security.v) \in {<<"O", "P", "E", "N">>, <<"W", "E", "P">>}
    /\ n.latitude.t = "num"
    /\ n.longitude.t = "num"

\* C30: clustering returns without an error, every member of a returned
\* cluster passes the filter, and there is no cluster when no input record
\* passes it.
C30_FilterInsecureNumeric ==
    ret.n >= 1 =>
        /\ ret.val.out = "ok"
        /\ \A k \in 1..Len(ret.val.clusters) :
              \A i \in 1..Len(ret.val.clusters[k].members) :
                 PassesFilter(ret.val.clusters[k].members[i])
        /\ (\A j \in 1..Len(arg) : ~PassesFilter(arg[j])) => ret.val.clusters = <<>>

\* The insecure points of the input: the records of an insecure type that
\* carry coordinates.
InsecurePoints ==
    SelectSeq(arg, LAMBDA n : /\ n.security.t = "str"
                              /\ Upper(n.security.v) \in {<<"O", "P", "E", "N">>, <<"W", "E", "P">>}
                              /\ n.latitude.t # "none"
                              /\ n.longitude.t # "none")

\* They are at least min_pts points, each pair of them within eps.
AllWithin(eps, min_pts) ==
    LET at == [i \in 1..Len(InsecurePoints) |-> InsecurePoints[i].latitude]
    IN  /\ Len(at) >= min_pts
        /\ \A i \in 1..Len(at) : at[i].t = "num"
        /\ \A i \in 1..Len(InsecurePoints) : InsecurePoints[i].longitude.t = "num"
        /\ \A i, j \in 1..Len(at) : at[i].v - at[j].v <= eps

NoiseOutsideClusters(res, eps, min_pts) ==
    LET pts == SelectSeq(arg, PassesFilter)
        at == [i \in 1..Len(pts) |-> pts[i].latitude.v]
        Within(i, j) == at[i] - at[j] <= eps /\ at[j] - at[i] <= eps
        core == {i \in 1..Len(pts) :
                    Cardinality({j \in 1..Len(pts) : Within(i, j)}) >= min_pts}
        In(k, r) == Cardinality({m \in 1..Len(res.clusters[k].members) :
                                    res.clusters[k].members[m] = r})
    IN  /\ res.out = "ok"
        /\ core = {} => res.clusters = <<>>
        /\ \A i \in 1..Len(pts) :
              IF \E c \in core : Within(i, c)
              THEN \E k \in 1..Len(res.clusters) :
                      /\ In(k, pts[i]) = Cardinality({j \in 1..Len(pts) : pts[j] = pts[i]})
                      /\ \A h \in 1..Len(res.clusters) : h # k => In(h, pts[i]) = 0
              ELSE \A k \in 1..Len(res.clusters) : In(k, pts[i]) = 0

\* C32: both clustering functions keep noise out of every cluster, count every
\* other point in exactly one cluster, and return no cluster when no point is a
\* core point.
C32_NoiseInNoCluster ==
    /\ ret.n = 1 => NoiseOutsideClusters(ret.val, DBSCAN_EPS_METERS, DBSCAN_MIN_SAMPLES)
    /\ ret.n = 2 => NoiseOutsideClusters(ret.val, eps_meters, min_samples)

\* C33: the response of either route holds at most one record per dedupe key,
\* its count is the length of its networks list, and its clusters are those of
\* the deduplicated records.
C33_FetchDedupeCluster ==
    ret.n >= 1 =>
        /\ \A i, j \in 1..Len(ret.val.networks) :
              DedupeKey(ret.val.networks[i]) = DedupeKey(ret.val.networks[j]) => i = j
        /\ ret.val.count = Len(ret.val.networks)
        /\ ret.val.clusters = ComputeClusters(DedupeNetworks(arg)).clusters

\* The request ids of the accepted observations: the requests answered 201 and
\* the records an earlier run left behind.
AcceptedIds ==
    {r \in Reqs : pc[r] = "done"} \cup {backlog0[i].req : i \in 1..Len(backlog0)}

\* C34: with ingest and sync_offline_buffer calls running one at a time and every
\* publish either succeeding or failing with a transport error, whenever no call
\* is in progress every accepted observation has been published successfully at
\* least once or is in the offline buffer.
C34_PublishedOrBuffered ==
    Quiescent =>
        \A id \in AcceptedIds : published[id] >= 1 \/ Copies(offline, id) >= 1

\* Two accepted observations and no call in progress: the first one's publish
\* failed, the sync called by the second ingest popped it, failed to publish it
\* and put it back; the second one is on the feed and not in the buffer.
C34_Witness ==
    /\ Quiescent
    /\ pc[1] = "done" /\ pc[2] = "done"
    /\ Has(hist[1], "publish_fail")
    /\ published[1] = 0 /\ Copies(offline, 1) = 1
    /\ published[2] >= 1 /\ Copies(offline, 2) = 0
    /\ Has(hist[2], "sync_return")
    /\ \E i \in 1..Len(tried[2]) : tried[2][i].rec.req = 1 /\ ~tried[2][i].ok

\* The number of entries of a list of records equal to rec.
Times(recs, rec) == Cardinality({i \in 1..Len(recs) : recs[i] = rec})

\* C35: with ingest, sync_offline_buffer and fetch_networks calls running one at
\* a time, in every state the offline buffer is a sub-multiset of the primary
\* store: each record is in the primary store at least as many times as in the
\* offline buffer.
C35_BufferWithinStore ==
    \A i \in 1..Len(ReadAll(offline)) :
        Times(ReadAll(offline), ReadAll(offline)[i]) <= Times(ReadAll(storage), ReadAll(offline)[i])

\* A query over empty files cached the feed's record in the primary store, then
\* an ingest whose publish failed stored and buffered its record.
C35_Witness ==
    /\ fpc["q1"] = "done"
    /\ source["q1"] = "adafruit"
    /\ note["q1"].fed
    /\ pc[1] = "done"
    /\ Has(hist[1], "buffer")
    /\ Copies(offline, 1) = 1
    /\ Len(ReadAll(storage)) = 2
====
